---------------------------- MODULE Spec2Model ----------------------------
(***************************************************************************)
(* A model of the zombie-survival game loop: the GameEngine classes of     *)
(* src/src/components/GameEngine.tsx (three successive versions kept in    *)
(* that file, called V1, V2 and V3 here in file order), the older engine   *)
(* variants of src/unnamed/part_012 and part_013, the Player, Weapon and   *)
(* InputSystem classes and the two Zombie classes of src/unnamed/part_008. *)
(*                                                                         *)
(* Units.  The source computes with IEEE doubles; the model computes with  *)
(* integers in fixed point:                                                *)
(*   length   1/100 of a world unit        (0.75 is 75)                    *)
(*   time     milliseconds                 (deltaTime 0.1 s is 100)        *)
(*   health   1/100 of a health point      (50 is 5000)                    *)
(*   speed    1/1000 of a world unit per second (zombie speed)             *)
(*   unit vectors and ratios are scaled by 1000                            *)
(* Comparisons of distances are made on squares wherever that is exact.    *)
(* Wall-clock stamps (performance.now()) are kept as the time elapsed      *)
(* since the stamp, saturating just above the threshold they are compared  *)
(* with: the code only ever reads their difference with the current time.  *)
(***************************************************************************)
EXTENDS Integers, Sequences, FiniteSets, TLC

VARIABLES
    variant,     \* which engine class is running: "V3", "V1", "V2", "P12", "P13"
    player,      \* Player: position, facing, health, isAlive, kills
    weapon,      \* Weapon of the player: ammo
    zombies,     \* GameEngine.zombies, in array order
    engine,      \* GameEngine scalar fields
    timeouts,    \* pending setTimeout callbacks, in firing order
    listeners,   \* number of handleRespawnKeyPress keydown listeners registered
    keys,        \* InputSystem.keys that are down
    scene,       \* the zombies whose mesh is in the scene and whose health bar exists
    steps,       \* the steps of the most recent handler, in the order they ran
    clock,       \* performance.now(), in ms since construction
    presses      \* number of keyboard events so far

vars == <<variant, player, weapon, zombies, engine, timeouts, listeners, keys, scene,
          steps, clock, presses>>

-----------------------------------------------------------------------------
(* Bounds of the model (not program constants).                            *)

\* GameEngine.maxZombies is 200 in V1/V3 and 10 in V2; the model runs the
\* same code with a small cap so that the cap is reached.
maxZombies == 3
\* The KeyZ debug key is accepted only while the array is shorter than this.
MaxLen == 4
\* At most this many InputSystem keys are down at once.
MaxHeld == 2
\* A frame arrives every FrameMs of wall-clock time.
FrameMs == 100
\* The game is followed for MaxTime of wall-clock time.
MaxTime == 10500
\* The keyboard produces at most MaxPresses events, every InputFrames frames.
MaxPresses == 3
InputFrames == 50

-----------------------------------------------------------------------------
(* Arithmetic helpers.                                                     *)

Abs(a) == IF a < 0 THEN -a ELSE a
Min(a, b) == IF a < b THEN a ELSE b
Max(a, b) == IF a > b THEN a ELSE b

\* Division rounding toward zero, as a real quotient cut to fixed point.
Quot(a, b) == IF a >= 0 THEN a \div b ELSE -((-a) \div b)

RECURSIVE SqrtSearch(_, _, _)
SqrtSearch(n, lo, hi) ==
    IF lo >= hi THEN lo
    ELSE LET mid == (lo + hi + 1) \div 2
         IN  IF mid * mid <= n THEN SqrtSearch(n, mid, hi)
                               ELSE SqrtSearch(n, lo, mid - 1)

\* Math.sqrt on a non-negative integer, rounded down.
Sqrt(n) == SqrtSearch(n, 0, 46340)

Sq(a) == a * a

-----------------------------------------------------------------------------
(* Zombie (src/unnamed/part_008, first class).                              *)

ZombieSpeed == 2500          \* speed = 2.5
ZombieHealth == 5000         \* health = maxHealth = 50
detectionRange == 5000       \* detectionRange = 50
ragdollDuration == 1500      \* 1.5 s
knockbackDuration == 500     \* 0.5 s
minDistanceBuffer == 50      \* 0.5
DeadMeshY == 30              \* mesh.position.y = 0.3 when dead
RagdollMeshY == 50           \* mesh.position.y = 0.5 while ragdolled
NoDeathTime == -1            \* deathTime = null

\* new Zombie(new THREE.Vector3(x, 0, z))
NewZombie(id, x, z) ==
    [id |-> id, x |-> x, z |-> z, y |-> 0, speed |-> ZombieSpeed,
     health |-> ZombieHealth, maxHealth |-> ZombieHealth, isAlive |-> TRUE,
     deadFor |-> NoDeathTime, isRagdolled |-> FALSE, ragdollLeft |-> 0,
     knockElapsed |-> knockbackDuration, kvx |-> 0, kvz |-> 0]

\* Zombie.wander: x += randomX * deltaTime, y += randomZ * deltaTime, where
\* jit is the pair of random displacements drawn for this frame.
wander(z, jit) == [z EXCEPT !.x = z.x + jit[1], !.z = z.z + jit[2], !.y = 0]

\* Zombie.recoverFromRagdoll
recoverFromRagdoll(z) == [z EXCEPT !.isRagdolled = FALSE, !.y = 0]

\* The ragdoll branch of Zombie.update: the knockback interpolation while
\* knockbackElapsed < knockbackDuration, then the recovery test.
RagdollStep(z) ==
    LET moved ==
            IF z.knockElapsed < knockbackDuration
            THEN LET progress == (z.knockElapsed * 1000) \div knockbackDuration
                     rest == 1000 - progress
                     eased == 1000 - ((rest * rest * rest) \div 1000000)
                     spanX == Quot(z.kvx * knockbackDuration, 1000)
                     spanZ == Quot(z.kvz * knockbackDuration, 1000)
                     startX == z.x - spanX
                     startZ == z.z - spanZ
                 IN  [z EXCEPT !.x = startX + Quot(spanX * eased, 1000),
                               !.z = startZ + Quot(spanZ * eased, 1000)]
            ELSE z
    IN  IF moved.ragdollLeft <= 0 THEN recoverFromRagdoll(moved) ELSE moved

\* The pursuit branch of Zombie.update (distance <= detectionRange).
PursuitStep(z, dt, px, pz) ==
    LET dx == px - z.x
        dz == pz - z.z
        d2 == Sq(dx) + Sq(dz)
        distance == Sqrt(d2)
    IN  IF d2 > Sq(minDistanceBuffer)
        THEN LET chaseSpeed == (z.speed * (15000 - Min(distance, detectionRange))) \div 10000
                 step == (chaseSpeed * dt) \div 10000
                 newX == z.x + Quot(dx * step, distance)
                 newZ == z.z + Quot(dz * step, distance)
                 newD2 == Sq(px - newX) + Sq(pz - newZ)
             IN  IF newD2 >= Sq(minDistanceBuffer)
                 THEN [z EXCEPT !.x = newX, !.z = newZ, !.y = 0]
                 ELSE [z EXCEPT
                         !.x = z.x + Quot(Quot(dx * step, distance) * (distance - minDistanceBuffer), distance),
                         !.z = z.z + Quot(Quot(dz * step, distance) * (distance - minDistanceBuffer), distance),
                         !.y = 0]
        ELSE z

\* Zombie.update without the return that ends its ragdoll branch.
ZombieUpdateThrough(z, dt, px, pz, pnan, jit) ==
    LET r == IF z.isRagdolled THEN RagdollStep(z) ELSE z
    IN  IF ~pnan /\ Sq(px - r.x) + Sq(pz - r.z) <= Sq(detectionRange)
        THEN PursuitStep(r, dt, px, pz)
        ELSE wander(r, jit)

\* Zombie.update(deltaTime, playerPos).  pnan: the player position is NaN,
\* which makes every comparison with the distance false.
ZombieUpdate(z, dt, px, pz, pnan, jit) ==
    IF z.isRagdolled THEN RagdollStep(z)
    ELSE IF ~pnan /\ Sq(px - z.x) + Sq(pz - z.z) <= Sq(detectionRange)
         THEN PursuitStep(z, dt, px, pz)
         ELSE wander(z, jit)

\* Zombie.takeDamage without the test of isAlive.
ZombieTakeDamageUnguarded(z, amount) ==
    LET damageAmount == Abs(amount) IN
    IF damageAmount = 0 THEN z
    ELSE LET h == Max(0, z.health - damageAmount) IN
         IF h <= 0
         THEN [z EXCEPT !.health = 0, !.isAlive = FALSE, !.deadFor = 0, !.y = DeadMeshY]
         ELSE [z EXCEPT !.health = h]

\* Zombie.takeDamage(amount) of the first class: guarded by isAlive, the
\* amount made positive, health clamped at 0, deathTime stamped on death.
ZombieTakeDamage(z, amount) ==
    IF ~z.isAlive THEN z
    ELSE LET damageAmount == Abs(amount) IN
         IF damageAmount = 0 THEN z
         ELSE LET h == Max(0, z.health - damageAmount) IN
              IF h <= 0
              THEN [z EXCEPT !.health = 0, !.isAlive = FALSE, !.deadFor = 0, !.y = DeadMeshY]
              ELSE [z EXCEPT !.health = h]

\* Zombie.takeDamage(amount) of the second class of part_008: no isAlive
\* guard and no death stamp.
ZombieTakeDamageOld(z, amount) ==
    LET h == z.health - amount IN
    IF h <= 0 THEN [z EXCEPT !.health = 0, !.isAlive = FALSE, !.y = DeadMeshY]
              ELSE [z EXCEPT !.health = h]

\* Zombie.applyRagdollEffect(knockbackDirection, knockbackForce); the
\* direction is a unit vector scaled by 1000, the force is in units.
applyRagdollEffect(z, ndx, ndz, force) ==
    [z EXCEPT !.ragdollLeft = ragdollDuration, !.isRagdolled = TRUE,
              !.y = RagdollMeshY, !.knockElapsed = 0,
              !.kvx = Quot(ndx * force, 10), !.kvz = Quot(ndz * force, 10)]

-----------------------------------------------------------------------------
(* Player (src/src/components/Player.tsx) and Weapon (Weapon.tsx).          *)

PlayerSpeed == 8             \* speed = 8 units per second
PlayerMaxHealth == 10000     \* maxHealth = 100
InitialMeshY == 1            \* mesh.position.set(x, 0.01, y)

WeaponDamage == 5000         \* PISTOL damage = 50
WeaponCooldown == 500        \* 1 / fireRate = 0.5 s
WeaponRange == 5000          \* range = 50
WeaponAccuracy == 900        \* accuracy = 0.9
WeaponMaxAmmo == 12          \* maxAmmo = 12
TipOffset == 60              \* direction * 0.6
TipHeight == 75              \* 0.75

\* new Player(name)
NewPlayer ==
    [x |-> 0, z |-> 0, y |-> InitialMeshY, nan |-> FALSE,
     dirX |-> 0, dirZ |-> -1000,
     health |-> PlayerMaxHealth, maxHealth |-> PlayerMaxHealth,
     isAlive |-> TRUE, kills |-> 0]

\* Player.takeDamage(amount)
PlayerTakeDamage(p, amount) ==
    IF ~p.isAlive THEN p
    ELSE LET h == p.health - amount IN
         IF h <= 0 THEN [p EXCEPT !.health = 0, !.isAlive = FALSE, !.y = DeadMeshY]
                   ELSE [p EXCEPT !.health = h]

\* Player.heal without the cap at maxHealth.
healUncapped(p, amount) ==
    IF ~p.isAlive THEN p
    ELSE [p EXCEPT !.health = p.health + amount]

\* Player.heal(amount)
heal(p, amount) ==
    IF ~p.isAlive THEN p
    ELSE [p EXCEPT !.health = Min(p.health + amount, p.maxHealth)]

\* Player.revive()
revive(p) == [p EXCEPT !.health = p.maxHealth, !.isAlive = TRUE, !.y = 0]

\* Player.addKill()
addKill(p) == [p EXCEPT !.kills = p.kills + 1]

\* Player.updatePosition(x, y)
updatePosition(p, x, z, nan) == [p EXCEPT !.x = x, !.z = z, !.y = 0, !.nan = nan]

\* The movement intent read from the keys in GameEngine.loop and in
\* Player.handleKeyboardMovement: w/s move along z, a/d along x.
MoveX(ks) == (IF "d" \in ks THEN 1 ELSE 0) - (IF "a" \in ks THEN 1 ELSE 0)
MoveZ(ks) == (IF "s" \in ks THEN 1 ELSE 0) - (IF "w" \in ks THEN 1 ELSE 0)

\* A component of the normalised movement vector, scaled by 1000.
Normalised(c, other) == IF c # 0 /\ other # 0 THEN c * 707 ELSE c * 1000

\* Player.update(deltaTime, inputSystem): only the facing direction is
\* state; the position is moved by the engine.
PlayerUpdate(p, ks) ==
    IF ~p.isAlive THEN p
    ELSE IF MoveX(ks) # 0 \/ MoveZ(ks) # 0
         THEN [p EXCEPT !.dirX = Normalised(MoveX(ks), MoveZ(ks)),
                        !.dirZ = Normalised(MoveZ(ks), MoveX(ks))]
         ELSE p

\* Weapon.canFire(), fire(), reload()
canFire(w) == w.ammo > 0
fire(w) == IF canFire(w) THEN [w EXCEPT !.ammo = w.ammo - 1] ELSE w
reload(w) == [w EXCEPT !.ammo = WeaponMaxAmmo]

-----------------------------------------------------------------------------
(* GameEngine, third class of src/src/components/GameEngine.tsx (V3).       *)
(* A handler is a function from the world it finds to the world it leaves:  *)
(* the world is the record of everything a handler can change.  Two fields  *)
(* are bookkeeping of the handler that is running: retired (the zombies it  *)
(* has removed so far, so that an object created later in the same handler  *)
(* is told apart from them) and log (the steps it has taken, in order).     *)

initialZombieSpawnRate == 5000     \* 5 s
difficultyIncreaseInterval == 10000 \* 10 s
minSpawnRate == 300                \* 0.3 s
respawnTime == 5000                \* 5 s
meleeCooldown == 1500              \* 1.5 s
meleeRange == 300                  \* 3
meleeKnockback == 20               \* 20
MeleeDamage == 1500                \* takeDamage(15)
zombieCleanupInterval == 2000      \* 2 s
DeadZombieTime == 3000             \* dead zombies are removed after 3 s
AttackRange == 70                  \* distance <= 0.7
AttackPerSecond == 500             \* damage = 5 * deltaTime
MaxDeltaTime == 100                \* Math.min(..., 0.1)
RespawnBatchDelay == 2000          \* setTimeout(..., 2000)
WaveSpawnGap == 500                \* setTimeout(..., i * 500)
MaxWaveZombies == 15               \* Math.min(waveNumber + 2, 15)
KillScore == 100                   \* 100 points per kill
HealAmount == 1000                 \* heal(10)

World ==
    [p |-> player, w |-> weapon, zs |-> zombies, e |-> engine, ts |-> timeouts,
     ls |-> listeners, sc |-> scene, retired |-> {}, log |-> <<>>]

Ids(zs) == {zs[i].id : i \in 1..Len(zs)}

\* The identity of the next object created by new Zombie(...).
FreshId(W) ==
    LET used == Ids(W.zs) \cup W.retired
    IN  CHOOSE i \in 0..Cardinality(used) : i \notin used /\ \A j \in 0..(i - 1) : j \in used

Logged(W, step) == [W EXCEPT !.log = Append(W.log, step)]

\* RenderingSystem.removeFromScene and UISystem.removeHealthBar
RemovePresentation(sc, id) == [meshes |-> sc.meshes \ {id}, bars |-> sc.bars \ {id}]

\* RenderingSystem.addToScene and UISystem.createHealthBar
AddPresentation(sc, id) == [meshes |-> sc.meshes \cup {id}, bars |-> sc.bars \cup {id}]

\* this.zombies.splice(index, 1)
RemoveAt(zs, k) == [i \in 1..(Len(zs) - 1) |-> IF i < k THEN zs[i] ELSE zs[i + 1]]

Dist2(ax, az, bx, bz) == Sq(ax - bx) + Sq(az - bz)

\* GameEngine.spawnZombieAt(x, z)
PushZombie(W, id, x, z) ==
    [W EXCEPT !.zs = Append(W.zs, NewZombie(id, x, z)),
              !.sc = AddPresentation(W.sc, id)]

spawnZombieAt(W, x, z) == PushZombie(W, FreshId(W), x, z)

\* The nearest living zombie instead of the furthest.
FurthestIndexNearest(W) ==
    LET alive == {i \in 1..Len(W.zs) : W.zs[i].isAlive /\ ~W.p.nan}
        d(i) == Dist2(W.zs[i].x, W.zs[i].z, W.p.x, W.p.z)
        best == {i \in alive : d(i) > 0 /\ \A j \in alive : d(i) <= d(j)}
    IN  IF best = {} THEN 1 ELSE CHOOSE i \in best : \A j \in best : i <= j

\* The zombie picked by the loop of removeOldestDistantZombie: the first
\* living zombie at the largest distance from the player if that distance
\* is positive, the first zombie of the array otherwise.  With a NaN
\* player position no comparison succeeds.
FurthestIndex(W) ==
    LET alive == {i \in 1..Len(W.zs) : W.zs[i].isAlive /\ ~W.p.nan}
        d(i) == Dist2(W.zs[i].x, W.zs[i].z, W.p.x, W.p.z)
        best == {i \in alive : d(i) > 0 /\ \A j \in alive : d(j) <= d(i)}
    IN  IF best = {} THEN 1 ELSE CHOOSE i \in best : \A j \in best : i <= j

\* GameEngine.removeOldestDistantZombie()
RemoveZombie(W, k) ==
    [W EXCEPT !.zs = RemoveAt(W.zs, k),
              !.sc = RemovePresentation(W.sc, W.zs[k].id),
              !.retired = W.retired \cup {W.zs[k].id}]

removeOldestDistantZombie(W) ==
    IF Len(W.zs) = 0 THEN W ELSE RemoveZombie(W, FurthestIndex(W))

\* GameEngine.spawnZombie(); pt is the random point of the spawn ring.
spawnZombie(W, pt) ==
    IF ~W.p.isAlive THEN W
    ELSE LET W1 == IF Len(W.zs) >= maxZombies THEN removeOldestDistantZombie(W) ELSE W
         IN  spawnZombieAt(W1, pt[1], pt[2])

\* GameEngine.spawnInitialZombies(3): radius 20 at the angles 0, 120 and
\* 240 degrees around the origin.
spawnInitialZombies(W) ==
    spawnZombieAt(spawnZombieAt(spawnZombieAt(W, 2000, 0), -1000, 1732), -1000, -1732)

\* setTimeout(callback, delay): the queue is kept in firing order.
RECURSIVE InsertTimeout(_, _)
InsertTimeout(ts, t) ==
    IF ts = <<>> THEN <<t>>
    ELSE IF Head(ts).due <= t.due THEN <<Head(ts)>> \o InsertTimeout(Tail(ts), t)
         ELSE <<t>> \o ts

setTimeout(W, kind, delay) == [W EXCEPT !.ts = InsertTimeout(W.ts, [kind |-> kind, due |-> delay])]

\* GameEngine.handlePlayerDeath()
handlePlayerDeath(W) ==
    [W EXCEPT !.e.playerDead = TRUE, !.e.gameOver = TRUE, !.e.respawnCountdown = respawnTime]

\* GameEngine.clearAllZombies()
clearAllZombies(W) ==
    [W EXCEPT !.zs = <<>>,
              !.sc = [meshes |-> W.sc.meshes \ Ids(W.zs), bars |-> W.sc.bars \ Ids(W.zs)],
              !.retired = W.retired \cup Ids(W.zs)]

\* GameEngine.resetGameDifficulty()
resetGameDifficulty(W) ==
    [W EXCEPT !.e.zombieSpawnRate = initialZombieSpawnRate,
              !.e.waveNumber = 1,
              !.e.timeSinceLastDifficultyIncrease = 0]

\* The test of a candidate point without the distance check.
IsSafeUnchecked(W, pt) == \A i \in 1..Len(W.zs) : W.zs[i].isAlive => TRUE

\* The test of findSafeSpawnLocation on one candidate point: no living
\* zombie nearer than safeDistance = 20.
safeDistance == 2000
IsSafe(W, pt) ==
    \A i \in 1..Len(W.zs) :
        W.zs[i].isAlive => Dist2(pt[1], pt[2], W.zs[i].x, W.zs[i].z) >= Sq(safeDistance)

\* GameEngine.respawnPlayer(); loc is the point findSafeSpawnLocation
\* returns, drawn by the caller among the points that function can return
\* for the zombies left after clearAllZombies.
\* this.player.revive(); this.player.getMesh().position.copy(safeLocation)
ReviveAt(W, loc) ==
    [W EXCEPT !.p = [revive(W.p) EXCEPT !.x = loc[1], !.z = loc[2], !.y = 0, !.nan = FALSE]]

respawnPlayer(W, loc) ==
    setTimeout(
        resetGameDifficulty(
            ReviveAt(clearAllZombies([W EXCEPT !.e.gameOver = FALSE, !.e.playerDead = FALSE,
                                               !.e.respawnCountdown = 0]),
                     loc)),
        "batch", RespawnBatchDelay)

\* GameEngine.updateRespawnCountdown(deltaTime), desktop branch: when the
\* countdown elapses a keydown listener handleRespawnKeyPress is added.
updateRespawnCountdown(W, dt) ==
    IF W.e.respawnCountdown > 0
    THEN LET left == W.e.respawnCountdown - dt
         IN  IF left <= 0
             THEN [W EXCEPT !.e.respawnCountdown = 0, !.ls = W.ls + 1]
             ELSE [W EXCEPT !.e.respawnCountdown = left]
    ELSE W

\* The wave scaling of one zombie in increaseDifficulty.
ScaleZombie(z) ==
    IF z.isAlive
    THEN LET healthIncrease == z.maxHealth \div 10
         IN  [z EXCEPT !.speed = Min((z.speed * 105) \div 100, z.speed * 2),
                       !.maxHealth = Min(z.maxHealth + healthIncrease, z.maxHealth * 3),
                       !.health = z.health + healthIncrease]
    ELSE z

RECURSIVE ScheduleWave(_, _, _)
ScheduleWave(W, i, n) ==
    IF i >= n THEN W ELSE ScheduleWave(setTimeout(W, "wave", i * WaveSpawnGap), i + 1, n)

\* GameEngine.increaseDifficulty()
\* The loop of increaseDifficulty over the zombies, run when waveNumber > 1.
ScaleZombies(W) ==
    IF W.e.waveNumber > 1
    THEN [W EXCEPT !.zs = [i \in 1..Len(W.zs) |-> ScaleZombie(W.zs[i])]]
    ELSE W

\* The new spawn rate without the floor of Math.max.
NextWaveUnfloored(W) ==
    [W EXCEPT !.e.waveNumber = W.e.waveNumber + 1,
              !.e.zombieSpawnRate = (W.e.zombieSpawnRate * 92) \div 100]

\* this.waveNumber++ and the new spawn rate.
NextWave(W) ==
    [W EXCEPT !.e.waveNumber = W.e.waveNumber + 1,
              !.e.zombieSpawnRate = Max(minSpawnRate, (W.e.zombieSpawnRate * 92) \div 100)]

increaseDifficulty(W) ==
    IF ~W.p.isAlive THEN W
    ELSE ScaleZombies(ScheduleWave(NextWave(W), 0, Min(W.e.waveNumber + 3, MaxWaveZombies)))

\* GameEngine.cleanupDeadZombies()
Expired(z) == ~z.isAlive /\ z.deadFor # NoDeathTime /\ z.deadFor > DeadZombieTime

RECURSIVE KeepUnexpired(_)
KeepUnexpired(zs) ==
    IF zs = <<>> THEN <<>>
    ELSE IF Expired(Head(zs)) THEN KeepUnexpired(Tail(zs))
         ELSE <<Head(zs)>> \o KeepUnexpired(Tail(zs))

cleanupDeadZombies(W) ==
    LET gone == {W.zs[i].id : i \in {j \in 1..Len(W.zs) : Expired(W.zs[j])}}
    IN  [W EXCEPT !.zs = KeepUnexpired(W.zs),
                  !.sc = [meshes |-> W.sc.meshes \ gone, bars |-> W.sc.bars \ gone],
                  !.retired = W.retired \cup gone]

-----------------------------------------------------------------------------
(* Ranged combat: GameEngine.shootZombie (V3).                              *)

\* Player.getWeaponTipPosition(): the bullet starts 0.6 ahead of the player
\* mesh and 0.75 above it.
TipX(p) == p.x + Quot(p.dirX * TipOffset, 1000)
TipZ(p) == p.z + Quot(p.dirZ * TipOffset, 1000)
TipY(p) == p.y + TipHeight

\* toZombie.length() squared, from the weapon tip to the zombie mesh.
ShotDist2(p, z) == Sq(z.x - TipX(p)) + Sq(z.y - TipY(p)) + Sq(z.z - TipZ(p))

\* distance <= maxRange
InRange(p, z) == ShotDist2(p, z) <= Sq(WeaponRange)

\* angleCos > maxAngleCos, where angleCos = toZombie.normalize().dot(direction):
\* dot / length > 0.9, compared on squares.  Evaluated for zombies in range.
InCone(p, z) ==
    LET dot == Quot((z.x - TipX(p)) * p.dirX + (z.z - TipZ(p)) * p.dirZ, 1000)
    IN  dot > 0 /\ Sq(dot) > (Sq(WeaponAccuracy \div 100) * ShotDist2(p, z)) \div 100

\* The filter of shootZombie on one zombie.
Targetable(p, z) == z.isAlive /\ ~p.nan /\ InRange(p, z) /\ InCone(p, z)

\* targetableZombies[0]: the index of the nearest targetable zombie, the
\* first of the array among equals (the sort is stable); 0 when none.
HitIndex(p, zs) ==
    LET cand == {i \in 1..Len(zs) : Targetable(p, zs[i])}
        best == {i \in cand : \A j \in cand : ShotDist2(p, zs[i]) <= ShotDist2(p, zs[j])}
    IN  IF cand = {} THEN 0 ELSE CHOOSE i \in best : \A j \in best : i <= j

\* GameEngine.shootZombie()
\* The kill credit of shootZombie: a kill, 100 points and the distance bonus
\* Math.floor(distance * 10) when the zombie that was hit is dead.
Credit(W, k, distance) ==
    IF ~W.zs[k].isAlive
    THEN [W EXCEPT !.p = addKill(W.p),
                   !.e.gameScore = W.e.gameScore + KillScore + (distance \div 10)]
    ELSE W

\* The hit branch applied to the first zombie of the array when no zombie
\* is targetable.
HitOrFirst(W, k) ==
    IF k = 0
    THEN IF Len(W.zs) = 0 THEN W
         ELSE [W EXCEPT !.zs[1] = ZombieTakeDamage(W.zs[1], WeaponDamage)]
    ELSE Credit(Logged([W EXCEPT !.zs[k] = ZombieTakeDamage(W.zs[k], WeaponDamage)], "render"),
                k, Sqrt(ShotDist2(W.p, W.zs[k])))

\* The hit branch with the damage applied to every zombie from the target on.
HitThrough(W, k) ==
    IF k = 0 THEN W
    ELSE Credit([W EXCEPT !.zs = [i \in 1..Len(W.zs) |->
                                    IF i >= k THEN ZombieTakeDamage(W.zs[i], WeaponDamage)
                                    ELSE W.zs[i]]],
                k, Sqrt(ShotDist2(W.p, W.zs[k])))

\* The hit branch of shootZombie on targetableZombies[0]: takeDamage, the
\* health bar, a render, then the credit.
Hit(W, k) ==
    IF k = 0 THEN W
    ELSE Credit(Logged([W EXCEPT !.zs[k] = ZombieTakeDamage(W.zs[k], WeaponDamage)], "render"),
                k, Sqrt(ShotDist2(W.p, W.zs[k])))

shootZombie(W) == IF ~W.p.isAlive THEN W ELSE Hit(W, HitIndex(W.p, W.zs))

-----------------------------------------------------------------------------
(* Melee combat: GameEngine.meleeAttack (V3).                               *)

\* The selection test of meleeAttack on one zombie: alive, within
\* meleeRange of the player mesh and in the front half plane.
InMelee(p, z) ==
    /\ z.isAlive
    /\ ~p.nan
    /\ Dist2(z.x, z.z, p.x, p.z) <= Sq(meleeRange)
    /\ (z.x - p.x) * p.dirX + (z.z - p.z) * p.dirZ > 0

\* The effect of meleeAttack on one selected zombie.
MeleeHit(p, z) ==
    LET hurt == ZombieTakeDamage(z, MeleeDamage)
        dx == z.x - p.x
        dz == z.z - p.z
        distance == Sqrt(Sq(dx) + Sq(dz))
    IN  IF distance > 0
        THEN applyRagdollEffect(hurt, Quot(dx * 1000, distance), Quot(dz * 1000, distance),
                                meleeKnockback)
        ELSE hurt

\* meleeAttack with the effect applied to the first selected zombie only.
meleeAttackFirst(W) ==
    IF ~W.p.isAlive THEN W
    ELSE IF W.e.sinceMelee < meleeCooldown THEN W
    ELSE LET sel == {i \in 1..Len(W.zs) : InMelee(W.p, W.zs[i])}
         IN  [W EXCEPT !.e.sinceMelee = 0,
                       !.zs = [i \in 1..Len(W.zs) |->
                                  IF i \in sel /\ \A j \in sel : i <= j
                                  THEN MeleeHit(W.p, W.zs[i]) ELSE W.zs[i]]]

\* GameEngine.meleeAttack()
meleeAttack(W) ==
    IF ~W.p.isAlive THEN W
    ELSE IF W.e.sinceMelee < meleeCooldown THEN W
    ELSE [W EXCEPT !.e.sinceMelee = 0,
                   !.zs = [i \in 1..Len(W.zs) |->
                              IF InMelee(W.p, W.zs[i]) THEN MeleeHit(W.p, W.zs[i])
                                                       ELSE W.zs[i]]]

-----------------------------------------------------------------------------
(* Input: GameEngine.handleInput and handleKeyDown (V3).                    *)

\* InputSystem.isShooting() on desktop
isShooting(ks) == " " \in ks

\* GameEngine.handleInput()
\* weapon.fire(); this.lastShootTime = currentTime
Fired(W) == [W EXCEPT !.w = fire(W.w), !.e.sinceShoot = 0]

\* The shooting block with the test of player.isAlive left out.
ShootInputUnguarded(W, ks) ==
    IF isShooting(ks) /\ W.e.sinceShoot >= WeaponCooldown /\ canFire(W.w)
    THEN Fired(shootZombie(W))
    ELSE W

\* The three blocks of handleInput: shooting, melee, reload.
ShootInput(W, ks) ==
    IF isShooting(ks) /\ W.p.isAlive /\ W.e.sinceShoot >= WeaponCooldown /\ canFire(W.w)
    THEN Fired(shootZombie(W))
    ELSE W

MeleeInput(W, ks) == IF "e" \in ks /\ W.p.isAlive THEN meleeAttack(W) ELSE W

ReloadInput(W, ks) == IF "r" \in ks /\ W.p.isAlive THEN [W EXCEPT !.w = reload(W.w)] ELSE W

handleInput(W, ks) == ReloadInput(MeleeInput(ShootInput(Logged(W, "input"), ks), ks), ks)

\* if (!this.player.isAlive) this.handlePlayerDeath()
DeathCheck(W) == IF ~W.p.isAlive THEN handlePlayerDeath(W) ELSE W

\* GameEngine.handleKeyDown(event); rnd.spawn is the random point of the
\* KeyZ ring and rnd.safe the point findSafeSpawnLocation returns.
handleKeyDown(W, code, rnd) ==
    IF W.e.playerDead
    THEN IF code = "KeyR" /\ W.e.respawnCountdown <= 0 THEN respawnPlayer(W, rnd.safe) ELSE W
    ELSE CASE code = "Space" -> shootZombie(W)
           [] code = "KeyH" -> [W EXCEPT !.p = heal(W.p, HealAmount)]
           [] code = "KeyZ" -> spawnZombieAt(W, rnd.spawn[1], rnd.spawn[2])
           [] code = "KeyK" ->
                DeathCheck([W EXCEPT !.p = PlayerTakeDamage(W.p, W.p.health)])
           [] OTHER -> W

\* The listener handleRespawnKeyPress added by updateRespawnCountdown: on
\* KeyR it respawns the player and removes itself.
Unlisten(W) == [W EXCEPT !.ls = W.ls - 1]

RECURSIVE RespawnListeners(_, _, _, _)
RespawnListeners(W, code, rnd, n) ==
    IF n = 0 \/ code # "KeyR" THEN W
    ELSE RespawnListeners(Unlisten(respawnPlayer(W, rnd.safe)), code, rnd, n - 1)

-----------------------------------------------------------------------------
(* Movement: GameEngine.checkPlayerZombieCollision (V3).                    *)

collisionBuffer == 70        \* 0.7

\* closestZombie: the first living zombie at the least distance below the
\* buffer from the attempted position; 0 when there is none.
ClosestIndex(zs, nx, nz) ==
    LET hit == {i \in 1..Len(zs) :
                   zs[i].isAlive /\ Dist2(nx, nz, zs[i].x, zs[i].z) < Sq(collisionBuffer)}
        best == {i \in hit : \A j \in hit :
                    Dist2(nx, nz, zs[i].x, zs[i].z) <= Dist2(nx, nz, zs[j].x, zs[j].z)}
    IN  IF hit = {} THEN 0 ELSE CHOOSE i \in best : \A j \in best : i <= j

\* The sliding computation for a collision with zombie k.  The result is
\* [x, z, nan]: toZombieDist = 0 is divided by without a guard, and every
\* coordinate computed from the quotient is NaN.
Slide(p, zs, k, nx, nz) ==
    LET moveDirX == nx - p.x
        moveDirY == nz - p.z
        moveDist == Sqrt(Sq(moveDirX) + Sq(moveDirY))
        toZombieX == zs[k].x - nx
        toZombieY == zs[k].z - nz
        toZombieDist == Sqrt(Sq(toZombieX) + Sq(toZombieY))
    IN  IF moveDist = 0 THEN [x |-> p.x, z |-> p.z, nan |-> FALSE]
        ELSE IF Sq(toZombieX) + Sq(toZombieY) = 0 THEN [x |-> nx, z |-> nz, nan |-> TRUE]
        ELSE LET td == Max(toZombieDist, 1)
                 normalizedToZombieX == Quot(toZombieX * 1000, td)
                 normalizedToZombieY == Quot(toZombieY * 1000, td)
                 overlap == collisionBuffer - toZombieDist
                 collisionBoundaryX == nx - Quot(normalizedToZombieX * overlap, 1000)
                 collisionBoundaryY == nz - Quot(normalizedToZombieY * overlap, 1000)
                 normalizedMoveDirX == Quot(moveDirX * 1000, moveDist)
                 normalizedMoveDirY == Quot(moveDirY * 1000, moveDist)
                 dot == Quot(normalizedMoveDirX * normalizedToZombieX
                             + normalizedMoveDirY * normalizedToZombieY, 1000)
                 slideX == normalizedMoveDirX - Quot(normalizedToZombieX * dot, 1000)
                 slideY == normalizedMoveDirY - Quot(normalizedToZombieY * dot, 1000)
                 slideMag == Sqrt(Sq(slideX) + Sq(slideY))
             IN  IF slideMag = 0
                 THEN [x |-> collisionBoundaryX, z |-> collisionBoundaryY, nan |-> FALSE]
                 ELSE LET finalX == collisionBoundaryX + Quot(Quot(slideX * 1000, slideMag) * moveDist, 1000)
                          finalY == collisionBoundaryY + Quot(Quot(slideY * 1000, slideMag) * moveDist, 1000)
                          blocked == \E i \in 1..Len(zs) :
                                        /\ zs[i].isAlive /\ i # k
                                        /\ Dist2(finalX, finalY, zs[i].x, zs[i].z) < Sq(collisionBuffer)
                      IN  IF blocked
                          THEN [x |-> collisionBoundaryX, z |-> collisionBoundaryY, nan |-> FALSE]
                          ELSE [x |-> finalX, z |-> finalY, nan |-> FALSE]

\* GameEngine.checkPlayerZombieCollision(newPlayerX, newPlayerY)
Collide(p, zs, k, nx, nz) ==
    IF k = 0 THEN [x |-> nx, z |-> nz, nan |-> FALSE] ELSE Slide(p, zs, k, nx, nz)

checkPlayerZombieCollision(p, zs, nx, nz) == Collide(p, zs, ClosestIndex(zs, nx, nz), nx, nz)

\* The movement block of the loop: the intended position from the keys,
\* corrected by the collision check, applied with Player.updatePosition.
\* A NaN position stays NaN whatever is added to it.
Placed(W, r) == Logged([W EXCEPT !.p = updatePosition(W.p, r.x, r.z, r.nan)], "collision")

MovePlayer(W, ks, dt) ==
    IF W.p.isAlive /\ (MoveX(ks) # 0 \/ MoveZ(ks) # 0)
    THEN IF W.p.nan THEN Logged(W, "collision")
         ELSE Placed(W, checkPlayerZombieCollision(W.p, W.zs,
                  W.p.x + Quot(Normalised(MoveX(ks), MoveZ(ks)) * ((PlayerSpeed * dt) \div 10), 1000),
                  W.p.z + Quot(Normalised(MoveZ(ks), MoveX(ks)) * ((PlayerSpeed * dt) \div 10), 1000)))
    ELSE W

-----------------------------------------------------------------------------
(* The frame: GameEngine.loop (V3).                                         *)

\* The spawn and difficulty timers of the loop, run while the player lives.
SpawnTimer(W, dt, rnd) ==
    IF W.e.zombieSpawnTime + dt >= W.e.zombieSpawnRate
    THEN [spawnZombie(Logged(W, "spawn"), rnd.ring) EXCEPT !.e.zombieSpawnTime = 0]
    ELSE [W EXCEPT !.e.zombieSpawnTime = W.e.zombieSpawnTime + dt]

DifficultyTimer(W, dt) ==
    IF W.e.timeSinceLastDifficultyIncrease + dt >= difficultyIncreaseInterval
    THEN [increaseDifficulty(W) EXCEPT !.e.timeSinceLastDifficultyIncrease = 0]
    ELSE [W EXCEPT !.e.timeSinceLastDifficultyIncrease = W.e.timeSinceLastDifficultyIncrease + dt]

SpawnAndScale(W, dt, rnd) ==
    IF W.p.isAlive THEN DifficultyTimer(SpawnTimer(W, dt, rnd), dt) ELSE W

\* One iteration of "for (const zombie of this.zombies)": the update of a
\* living zombie, then its attack check against the player.
Attack(W, i, dt) ==
    IF ~W.p.nan /\ Dist2(W.p.x, W.p.z, W.zs[i].x, W.zs[i].z) <= Sq(AttackRange) /\ W.p.isAlive
    THEN DeathCheck([W EXCEPT !.p = PlayerTakeDamage(W.p, (AttackPerSecond * dt) \div 1000)])
    ELSE W

Updated(W, i, dt, rnd) ==
    [W EXCEPT !.zs[i] = ZombieUpdate(W.zs[i], dt, W.p.x, W.p.z, W.p.nan, rnd.jit)]

ZombieTurn(W, i, dt, rnd) ==
    IF ~W.zs[i].isAlive THEN W
    ELSE Attack(Logged(Logged(Updated(W, i, dt, rnd), "zombieUpdate"), "attack"), i, dt)

RECURSIVE ZombieTurns(_, _, _, _)
ZombieTurns(W, i, dt, rnd) ==
    IF i > Len(W.zs) THEN W ELSE ZombieTurns(ZombieTurn(W, i, dt, rnd), i + 1, dt, rnd)

\* The periodic cleanup at the end of the loop.
Cleanup(W) ==
    IF W.e.sinceCleanup > zombieCleanupInterval
    THEN [cleanupDeadZombies(Logged(W, "cleanup")) EXCEPT !.e.sinceCleanup = 0]
    ELSE W

\* GameEngine.loop(currentTime), up to the requestAnimationFrame that ends
\* it; dt is deltaTime and rnd the random numbers the frame draws.
\* if (this.playerDead) this.updateRespawnCountdown(deltaTime)
Countdown(W, dt) == IF W.e.playerDead THEN updateRespawnCountdown(W, dt) ELSE W

\* this.player.update(deltaTime, this.inputSystem)
PlayerStep(W, ks) == Logged([W EXCEPT !.p = PlayerUpdate(W.p, ks)], "playerUpdate")

\* The loop with the zombies updated before the player.
loopZombiesFirst(W, ks, dt, rnd) ==
    IF W.p.isAlive \/ W.e.playerDead
    THEN Logged(
           Cleanup(
             PlayerStep(
               MovePlayer(
                 ZombieTurns(
                   SpawnAndScale(Countdown(handleInput(W, ks), dt), dt, rnd),
                   1, dt, rnd),
                 ks, dt),
               ks)),
           "render")
    ELSE W

loop(W, ks, dt, rnd) ==
    IF W.p.isAlive \/ W.e.playerDead
    THEN Logged(
           Cleanup(
             ZombieTurns(
               SpawnAndScale(
                 PlayerStep(MovePlayer(Countdown(handleInput(W, ks), dt), ks, dt), ks),
                 dt, rnd),
               1, dt, rnd)),
           "render")
    ELSE W

\* The passing of wall-clock time e until the next frame: every stamp the
\* program compares performance.now() with grows older, every pending
\* timeout comes nearer.
Older(t, e, cap) == Min(t + e, cap)

TickZombie(z, e) ==
    [z EXCEPT !.deadFor = IF z.deadFor = NoDeathTime THEN NoDeathTime
                          ELSE Older(z.deadFor, e, DeadZombieTime + FrameMs),
              !.ragdollLeft = Max(0, z.ragdollLeft - e),
              !.knockElapsed = Older(z.knockElapsed, e, knockbackDuration)]

Tick(W, e) ==
    [W EXCEPT !.e.sinceShoot = Older(W.e.sinceShoot, e, WeaponCooldown),
              !.e.sinceMelee = Older(W.e.sinceMelee, e, meleeCooldown),
              !.e.sinceCleanup = Older(W.e.sinceCleanup, e, zombieCleanupInterval + FrameMs),
              !.zs = [i \in 1..Len(W.zs) |-> TickZombie(W.zs[i], e)],
              !.ts = [i \in 1..Len(W.ts) |-> [W.ts[i] EXCEPT !.due = Max(0, W.ts[i].due - e)]]]

-----------------------------------------------------------------------------
(* The random numbers of the program, drawn from small sets of points.      *)

\* spawnZombie: radius 50 + random * 20 around the origin.
RingPoints == {<<0, -5000>>, <<6000, 0>>}
\* KeyZ: radius 15 around the origin.
KeyZPoints == {<<0, -1500>>, <<1500, 0>>}
\* findSafeSpawnLocation: radius 30 + random * 20, and radius 40 when all
\* twenty attempts fail.
SafePoints == {<<3000, 0>>, <<0, 5000>>}
FallbackPoints == {<<0, -4000>>}
\* wander: (Math.random() - 0.5) * 0.5 * deltaTime on each axis.
Jitters == {<<2, -2>>}

\* GameEngine.findSafeSpawnLocation(): the points it can return.
findSafeSpawnLocation(W) ==
    {pt \in SafePoints : IsSafe(W, pt)}
        \cup (IF \E pt \in SafePoints : ~IsSafe(W, pt) THEN FallbackPoints ELSE {})

\* The draws of a frame or of a timeout callback, and those of a key event.
NoPoint == <<0, 0>>
FrameDraws == [ring : RingPoints, jit : Jitters, spawn : {NoPoint}, safe : {NoPoint}]
KeyDraws(W, code) ==
    [ring : {NoPoint}, jit : {NoPoint},
     spawn : IF code = "KeyZ" THEN KeyZPoints ELSE {NoPoint},
     safe : IF code = "KeyR" THEN findSafeSpawnLocation(clearAllZombies(W)) ELSE {NoPoint}]

-----------------------------------------------------------------------------
(* The state after new GameEngine(name) and start().                        *)

NewEngine ==
    [zombieSpawnTime |-> 0, zombieSpawnRate |-> initialZombieSpawnRate, waveNumber |-> 1,
     timeSinceLastDifficultyIncrease |-> 0, gameScore |-> 0, gameOver |-> FALSE,
     playerDead |-> FALSE, respawnCountdown |-> 0, sinceShoot |-> WeaponCooldown,
     sinceMelee |-> meleeCooldown, sinceCleanup |-> 0, running |-> TRUE,
     stopped |-> FALSE]

EmptyWorld ==
    [p |-> NewPlayer, w |-> [ammo |-> WeaponMaxAmmo], zs |-> <<>>, e |-> NewEngine,
     ts |-> <<>>, ls |-> 0, sc |-> [meshes |-> {}, bars |-> {}], retired |-> {},
     log |-> <<>>]

\* constructor of GameEngine (V3): ends with spawnInitialZombies(3).
Constructed == spawnInitialZombies(EmptyWorld)

Start(W, v) ==
    /\ variant = v
    /\ player = W.p
    /\ weapon = W.w
    /\ zombies = W.zs
    /\ engine = W.e
    /\ timeouts = W.ts
    /\ listeners = W.ls
    /\ scene = W.sc
    /\ keys = {}
    /\ steps = <<>>
    /\ clock = 0
    /\ presses = 0

Init == Start(Constructed, "V3")

\* The handler leaves the world W.
Leaves(W) ==
    /\ player' = W.p
    /\ weapon' = W.w
    /\ zombies' = W.zs
    /\ engine' = W.e
    /\ timeouts' = W.ts
    /\ listeners' = W.ls
    /\ scene' = W.sc
    /\ steps' = W.log

-----------------------------------------------------------------------------
(* Actions of the V3 engine.                                                *)

TimeoutDue == timeouts # <<>> /\ Head(timeouts).due <= 0

\* requestAnimationFrame callback: one run of loop.  A timeout that is due
\* runs before the frame.
Frame ==
    /\ engine.running
    /\ ~TimeoutDue
    /\ clock < MaxTime
    /\ \E rnd \in FrameDraws :
          Leaves(Tick(loop(World, keys, Min(FrameMs, MaxDeltaTime), rnd), FrameMs))
    /\ clock' = clock + FrameMs
    /\ UNCHANGED <<variant, keys, presses>>

\* The callback of a setTimeout that is due: the initial batch scheduled by
\* respawnPlayer, or one spawn of a wave scheduled by increaseDifficulty.
Timeout ==
    /\ TimeoutDue
    /\ \E rnd \in FrameDraws :
          LET W == [World EXCEPT !.ts = Tail(timeouts)]
          IN  Leaves(IF Head(timeouts).kind = "batch" THEN spawnInitialZombies(W)
                     ELSE IF W.p.isAlive THEN spawnZombie(W, rnd.ring) ELSE W)
    /\ UNCHANGED <<variant, keys, clock, presses>>

\* The keys of the keyboard: KeyboardEvent.key and KeyboardEvent.code.
KeyCode ==
    [w |-> "KeyW", a |-> "KeyA", s |-> "KeyS", d |-> "KeyD", e |-> "KeyE", r |-> "KeyR",
     h |-> "KeyH", z |-> "KeyZ", k |-> "KeyK"] @@ (" " :> "Space")
Tracked == {"w", "a", "s", "d", " ", "e", "r"}
\* The keys the player uses.
Keyboard == {"w", "d", " ", "e", "r", "h", "z", "k"}

KeyboardReady == presses < MaxPresses /\ (clock \div FrameMs) % InputFrames = 0

\* A keydown event: InputSystem.handleKeyDown, then GameEngine.handleKeyDown,
\* then the handleRespawnKeyPress listeners, in the order they were added.
KeyDown(k) ==
    /\ KeyboardReady
    /\ k \notin keys
    /\ k \in Tracked => Cardinality(keys) < MaxHeld
    /\ k = "z" => Len(zombies) < MaxLen
    /\ keys' = IF k \in Tracked THEN keys \cup {k} ELSE keys
    /\ \E rnd \in KeyDraws(World, KeyCode[k]) :
          LET W1 == handleKeyDown(World, KeyCode[k], rnd)
          IN  Leaves(RespawnListeners(W1, KeyCode[k], rnd, World.ls))
    /\ presses' = presses + 1
    /\ UNCHANGED <<variant, clock>>

\* A keyup event: InputSystem.handleKeyUp.
KeyUp(k) ==
    /\ KeyboardReady
    /\ k \in keys
    /\ keys' = keys \ {k}
    /\ presses' = presses + 1
    /\ UNCHANGED <<variant, player, weapon, zombies, engine, timeouts, listeners, scene,
                   steps, clock>>

Next ==
    \/ Frame
    \/ Timeout
    \/ \E k \in Keyboard : KeyDown(k)
    \/ \E k \in Keyboard \cap Tracked : KeyUp(k)

Spec == Init /\ [][Next]_vars

-----------------------------------------------------------------------------
(* The actors on their own: the player, a zombie of the first Zombie class  *)
(* of part_008 (zombies[1]) and a zombie of its second class (zombies[2]),  *)
(* under any sequence of the operations that read or write health.          *)

\* The amounts of damage and healing applied: nothing, less than a zombie's
\* health, half of it, exactly all of it, and more than any actor has.
Amounts == {0, 1500, 2500, 5000, 20000}
\* Wall-clock time that passes between two operations.
AgeMs == 1000
\* At most this many wave scalings.
MaxWaves == 2

InitActors ==
    Start([EmptyWorld EXCEPT !.zs = <<NewZombie(0, 2000, 0), NewZombie(1, -1000, 1732)>>],
          "Actors")

Rest == UNCHANGED <<variant, weapon, timeouts, listeners, keys, scene, clock, presses>>

\* zombie.takeDamage(amount), first class
ZombieDamaged(a) ==
    /\ zombies' = [zombies EXCEPT ![1] = ZombieTakeDamage(zombies[1], a)]
    /\ steps' = <<"Zombie.takeDamage">>
    /\ UNCHANGED <<player, engine>> /\ Rest

\* zombie.takeDamage(amount), second class
OldZombieDamaged(a) ==
    /\ zombies' = [zombies EXCEPT ![2] = ZombieTakeDamageOld(zombies[2], a)]
    /\ steps' = <<"ZombieOld.takeDamage">>
    /\ UNCHANGED <<player, engine>> /\ Rest

\* player.takeDamage(amount)
PlayerDamaged(a) ==
    /\ player' = PlayerTakeDamage(player, a)
    /\ steps' = <<"Player.takeDamage">>
    /\ UNCHANGED <<zombies, engine>> /\ Rest

\* player.heal(amount)
PlayerHealed(a) ==
    /\ player' = heal(player, a)
    /\ steps' = <<"Player.heal">>
    /\ UNCHANGED <<zombies, engine>> /\ Rest

\* player.revive()
PlayerRevived ==
    /\ player' = revive(player)
    /\ steps' = <<"Player.revive">>
    /\ UNCHANGED <<zombies, engine>> /\ Rest

\* The wave scaling of increaseDifficulty, applied to the zombie of the
\* first class (the class the scaling engine is built with).
WaveScaled ==
    /\ engine.waveNumber <= MaxWaves
    /\ engine' = [engine EXCEPT !.waveNumber = engine.waveNumber + 1]
    /\ zombies' = [zombies EXCEPT ![1] = ScaleZombie(zombies[1])]
    /\ steps' = <<"increaseDifficulty">>
    /\ UNCHANGED player /\ Rest

\* Time passes: the death stamps grow older.
Aged ==
    /\ zombies' = [i \in 1..Len(zombies) |-> TickZombie(zombies[i], AgeMs)]
    /\ zombies' # zombies
    /\ steps' = <<"wait">>
    /\ UNCHANGED <<player, engine>> /\ Rest

NextActors ==
    \/ \E a \in Amounts : ZombieDamaged(a)
    \/ \E a \in Amounts : OldZombieDamaged(a)
    \/ \E a \in Amounts : PlayerDamaged(a)
    \/ \E a \in Amounts : PlayerHealed(a)
    \/ PlayerRevived
    \/ WaveScaled
    \/ Aged

SpecActors == InitActors /\ [][NextActors]_vars

\* 0 <= health <= maxHealth, and isAlive is false exactly when health is 0.
HealthOK(a) == a.health >= 0 /\ a.health <= a.maxHealth /\ (~a.isAlive <=> a.health = 0)

C7_DeadDamageNoOp ==
    [][/\ (steps' = <<"Zombie.takeDamage">> /\ ~zombies[1].isAlive) => zombies'[1] = zombies[1]
       /\ (steps' = <<"ZombieOld.takeDamage">> /\ ~zombies[2].isAlive)
             => zombies'[2] = zombies[2]
       /\ (steps' = <<"Player.takeDamage">> /\ ~player.isAlive) => player' = player]_vars

\* A zombie of the first class that died some time ago and has just been
\* handed damage again.
C7_Witness ==
    /\ steps = <<"Zombie.takeDamage">>
    /\ ~zombies[1].isAlive
    /\ zombies[1].deadFor > 0

-----------------------------------------------------------------------------
(* Ranged combat of the second engine of GameEngine.tsx (V2): shootZombie.  *)

V2ShotDamage == 2500        \* zombie.takeDamage(25)
V2Range == 2000             \* distance < 20
V2Cone == 866               \* dot > 0.866
V2RemoveDelay == 3000       \* setTimeout(..., 3000)

\* dot > 0.866, where dot = direction.dot(toZombie) and toZombie is the
\* normalised horizontal vector from the player mesh to the zombie mesh (the
\* zero vector stays zero).
InConeV2(p, z) ==
    Quot((z.x - p.x) * p.dirX + (z.z - p.z) * p.dirZ, 1000) * 1000
        > V2Cone * Sqrt(Dist2(z.x, z.z, p.x, p.z))

\* distance < 20, measured in three dimensions between the two meshes.
InRangeV2(p, z) == Dist2(z.x, z.z, p.x, p.z) + Sq(z.y - p.y) < Sq(V2Range)

TargetableV2(p, z) == z.isAlive /\ InConeV2(p, z) /\ InRangeV2(p, z)

\* The zombie at which "for (const zombie of this.zombies)" breaks: the
\* first of the array that passes both tests; 0 when none does.
FirstIndexV2(p, zs) ==
    IF \A i \in 1..Len(zs) : ~TargetableV2(p, zs[i]) THEN 0
    ELSE CHOOSE i \in 1..Len(zs) :
            TargetableV2(p, zs[i]) /\ \A j \in 1..(i - 1) : ~TargetableV2(p, zs[j])

\* if (!zombie.isAlive): 100 points and the removal of the zombie 3 s later.
CreditV2(W, k) ==
    IF ~W.zs[k].isAlive
    THEN [W EXCEPT !.e.gameScore = W.e.gameScore + KillScore,
                   !.ts = InsertTimeout(W.ts, [kind |-> "remove", due |-> V2RemoveDelay,
                                               id |-> W.zs[k].id])]
    ELSE W

HitV2(W, k) ==
    IF k = 0 THEN W
    ELSE CreditV2([W EXCEPT !.zs[k] = ZombieTakeDamageOld(W.zs[k], V2ShotDamage)], k)

\* GameEngine.shootZombie() of V2
shootZombieV2(W) ==
    IF W.e.gameOver THEN W ELSE HitV2(Logged(W, "bulletTrail"), FirstIndexV2(W.p, W.zs))

\* The callback of the removal timeout: indexOf and splice.
RemoveById(W, id) ==
    IF id \in Ids(W.zs)
    THEN RemoveZombie(W, CHOOSE i \in 1..Len(W.zs) : W.zs[i].id = id)
    ELSE [W EXCEPT !.sc.meshes = W.sc.meshes \ {id}]

-----------------------------------------------------------------------------
(* The first engine of GameEngine.tsx (V1) and the engine of part_013 (P13). *)

V1ScalingPercent == 95      \* difficultyScalingFactor = 0.95
V1MinSpawnRate == 500       \* minSpawnRate = 0.5
V1MaxWaveZombies == 10      \* Math.min(waveNumber + 2, 10)
V1ShotDamage == 5000        \* hitZombie.takeDamage(50)
EarlyAttackRange == 150     \* distance < 1.5
P13AttackPerSecond == 1000  \* takeDamage(10 * deltaTime)
P13SpawnRate == 15000       \* zombieSpawnRate = 15
P13RespawnTime == 10000     \* respawnTime = 10

\* GameEngine.spawnZombie() of V1: no test of player.isAlive.
spawnZombieV1(W, pt) ==
    spawnZombieAt(IF Len(W.zs) >= maxZombies THEN removeOldestDistantZombie(W) ELSE W,
                  pt[1], pt[2])

\* GameEngine.respawnPlayer() of V1; loc is the point findSafeSpawnLocation
\* returns.
respawnPlayerV1(W, loc) ==
    resetGameDifficulty(
        ReviveAt([W EXCEPT !.e.gameOver = FALSE, !.e.playerDead = FALSE,
                           !.e.respawnCountdown = 0],
                 loc))

\* GameEngine.updateRespawnCountdown(deltaTime) of V1
CountedDownV1(W, left, loc) ==
    IF left <= 0 THEN respawnPlayerV1([W EXCEPT !.e.respawnCountdown = left], loc)
    ELSE [W EXCEPT !.e.respawnCountdown = left]

updateRespawnCountdownV1(W, dt, loc) ==
    IF W.e.respawnCountdown > 0 THEN CountedDownV1(W, W.e.respawnCountdown - dt, loc) ELSE W

\* GameEngine.increaseDifficulty() of V1
NextWaveV1(W) ==
    [W EXCEPT !.e.waveNumber = W.e.waveNumber + 1,
              !.e.zombieSpawnRate =
                  Max(V1MinSpawnRate, (W.e.zombieSpawnRate * V1ScalingPercent) \div 100)]

increaseDifficultyV1(W) ==
    ScheduleWave(NextWaveV1(W), 0, Min(W.e.waveNumber + 3, V1MaxWaveZombies))

\* GameEngine.shootZombie() of V1.  The zombie whose mesh the ray of the
\* THREE.Raycaster meets first depends on the geometry of the meshes, which
\* the model does not carry: k is drawn among the living zombies, 0 is a miss.
CreditV1(W, k) ==
    IF ~W.zs[k].isAlive
    THEN [W EXCEPT !.p = addKill(W.p),
                   !.e.gameScore = W.e.gameScore + KillScore
                       + (Sqrt(Dist2(W.zs[k].x, W.zs[k].z, W.p.x, W.p.z) + Sq(W.zs[k].y - W.p.y))
                            \div 10)]
    ELSE W

shootZombieV1(W, k) ==
    IF ~W.p.isAlive \/ k = 0 THEN W
    ELSE CreditV1([W EXCEPT !.zs[k] = ZombieTakeDamage(W.zs[k], V1ShotDamage)], k)

\* GameEngine.shootZombie() of part_013: the loop of V2, with a kill counted.
CreditP13(W, k) == IF ~W.zs[k].isAlive THEN CreditV2([W EXCEPT !.p = addKill(W.p)], k) ELSE W

HitP13(W, k) ==
    IF k = 0 THEN W
    ELSE CreditP13([W EXCEPT !.zs[k] = ZombieTakeDamage(W.zs[k], V2ShotDamage)], k)

shootZombieP13(W) ==
    IF W.e.gameOver THEN W ELSE HitP13(Logged(W, "bulletTrail"), FirstIndexV2(W.p, W.zs))

\* GameEngine.handlePlayerDeath() of part_013
handlePlayerDeathP13(W) ==
    [W EXCEPT !.e.playerDead = TRUE, !.e.gameOver = TRUE, !.e.respawnCountdown = P13RespawnTime]

DeathCheckEarly(W, v) ==
    IF W.p.isAlive THEN W
    ELSE IF v = "P13" THEN handlePlayerDeathP13(W) ELSE handlePlayerDeath(W)

\* GameEngine.handleKeyDown(event) of V1 and of part_013: while playerDead
\* the R key only sets respawnCountdown to 0.
ShotEarly(W, v, rnd) == IF v = "P13" THEN shootZombieP13(W) ELSE shootZombieV1(W, rnd.target)

handleKeyDownEarly(W, v, code, rnd) ==
    IF W.e.playerDead
    THEN IF code = "KeyR" THEN [W EXCEPT !.e.respawnCountdown = 0] ELSE W
    ELSE CASE code = "Space" -> ShotEarly(W, v, rnd)
           [] code = "KeyH" -> [W EXCEPT !.p = heal(W.p, HealAmount)]
           [] code = "KeyZ" -> spawnZombieAt(W, rnd.spawn[1], rnd.spawn[2])
           [] code = "KeyK" ->
                DeathCheckEarly([W EXCEPT !.p = PlayerTakeDamage(W.p, W.p.health)], v)
           [] OTHER -> W

\* One iteration of the zombie loop: the update of a living zombie, then
\* its attack check (distance < 1.5).  V1 tests player.isAlive and deals
\* 5 * deltaTime; part_013 deals 10 * deltaTime and leaves the test to
\* Player.takeDamage.
AttackEarly(W, v, i, dt) ==
    IF Dist2(W.p.x, W.p.z, W.zs[i].x, W.zs[i].z) < Sq(EarlyAttackRange) /\ (v = "P13" \/ W.p.isAlive)
    THEN DeathCheckEarly(
           [W EXCEPT !.p = PlayerTakeDamage(W.p,
               ((IF v = "P13" THEN P13AttackPerSecond ELSE AttackPerSecond) * dt) \div 1000)],
           v)
    ELSE W

ZombieTurnEarly(W, v, i, dt, rnd) ==
    IF ~W.zs[i].isAlive THEN W
    ELSE AttackEarly(Logged(Logged(Updated(W, i, dt, rnd), "zombieUpdate"), "attack"), v, i, dt)

RECURSIVE ZombieTurnsEarly(_, _, _, _, _)
ZombieTurnsEarly(W, v, i, dt, rnd) ==
    IF i > Len(W.zs) THEN W
    ELSE ZombieTurnsEarly(ZombieTurnEarly(W, v, i, dt, rnd), v, i + 1, dt, rnd)

\* The spawn timer of V1: a spawn needs room in the array.
SpawnTimerV1(W, dt, rnd) ==
    IF W.e.zombieSpawnTime + dt >= W.e.zombieSpawnRate /\ Len(W.zs) < maxZombies
    THEN [spawnZombieV1(Logged(W, "spawn"), rnd.ring) EXCEPT !.e.zombieSpawnTime = 0]
    ELSE [W EXCEPT !.e.zombieSpawnTime = W.e.zombieSpawnTime + dt]

\* The difficulty timer of V1.
DifficultyTimerV1(W, dt) ==
    IF W.e.timeSinceLastDifficultyIncrease + dt >= difficultyIncreaseInterval
    THEN [increaseDifficultyV1(W) EXCEPT !.e.timeSinceLastDifficultyIncrease = 0]
    ELSE [W EXCEPT !.e.timeSinceLastDifficultyIncrease = W.e.timeSinceLastDifficultyIncrease + dt]

\* GameEngine.loop(currentTime) of V1
loopV1(W, ks, dt, rnd) ==
    IF ~W.e.gameOver
    THEN Logged(DifficultyTimerV1(
                  ZombieTurnsEarly(SpawnTimerV1(PlayerStep(W, ks), dt, rnd), "V1", 1, dt, rnd),
                  dt),
                "render")
    ELSE IF W.e.playerDead
         THEN Logged(updateRespawnCountdownV1(W, dt, rnd.safe), "render")
         ELSE Logged(W, "render")

\* GameEngine.spawnZombie() of part_013 and the spawn timer of its loop.
spawnZombieP13(W, pt) ==
    IF Len(W.zs) >= maxZombies THEN W ELSE spawnZombieAt(W, pt[1], pt[2])

SpawnTimerP13(W, dt, rnd) ==
    IF W.e.zombieSpawnTime + dt >= W.e.zombieSpawnRate
    THEN [spawnZombieP13(Logged(W, "spawn"), rnd.ring) EXCEPT !.e.zombieSpawnTime = 0]
    ELSE [W EXCEPT !.e.zombieSpawnTime = W.e.zombieSpawnTime + dt]

\* GameEngine.loop(currentTime) of part_013: with gameOver set it returns
\* before requestAnimationFrame, and no frame follows.
loopP13(W, ks, dt, rnd) ==
    IF W.e.gameOver THEN [W EXCEPT !.e.running = FALSE]
    ELSE Logged(ZombieTurnsEarly(PlayerStep(SpawnTimerP13(W, dt, rnd), ks), "P13", 1, dt, rnd),
                "render")

-----------------------------------------------------------------------------
(* Ranged combat on its own: one player, two zombies, every placement of    *)
(* the zombies on a small set of points, and the fire action applied.       *)

\* The directions the player faces: +Z, the diagonal between +X and +Z, -Z.
ShootFacings == {<<0, 1000>>, <<707, 707>>, <<0, -1000>>}

\* Where the zombies stand: 5, 8, 10 and 30 units straight ahead along +Z,
\* (100, 0, 100) far out of range on the diagonal, and 10 units to the side.
ShootPoints == {<<0, 500>>, <<0, 800>>, <<0, 1000>>, <<0, 3000>>, <<10000, 10000>>, <<1000, 0>>}

\* A zombie as spawned, as scaled by one wave, or as killed by a shot.
ZombieKinds == {"fresh", "scaled", "dead"}

ShootZombieAt(id, pt, kind) ==
    CASE kind = "fresh" -> NewZombie(id, pt[1], pt[2])
      [] kind = "scaled" -> ScaleZombie(NewZombie(id, pt[1], pt[2]))
      [] kind = "dead" -> ZombieTakeDamage(NewZombie(id, pt[1], pt[2]), WeaponDamage)

\* The shooting range is followed for this long.
MaxShootTime == 4000

ShootWorld(f, pa, ka, pb, kb) ==
    [EmptyWorld EXCEPT !.p.dirX = f[1], !.p.dirZ = f[2], !.p.y = 0,
                       !.zs = <<ShootZombieAt(0, pa, ka), ShootZombieAt(1, pb, kb)>>,
                       !.sc = [meshes |-> {0, 1}, bars |-> {0, 1}]]

InitShootOf(v) ==
    \E f \in ShootFacings, pa \in ShootPoints, pb \in ShootPoints, ka \in ZombieKinds,
       kb \in ZombieKinds :
        pa # pb /\ Start(ShootWorld(f, pa, ka, pb, kb), v)

InitShoot == InitShootOf("V3")

\* One run of handleInput with the shoot key held.
FireInput ==
    /\ Leaves(handleInput(World, {" "}))
    /\ UNCHANGED <<variant, keys, clock, presses>>

\* A keydown of the space bar: GameEngine.handleKeyDown calls shootZombie.
FireKey ==
    /\ \E rnd \in KeyDraws(World, "Space") :
          Leaves(handleKeyDown(Logged(World, "Space"), "Space", rnd))
    /\ UNCHANGED <<variant, keys, clock, presses>>

\* The weapon cooldown passes.
Wait ==
    /\ clock < MaxShootTime
    /\ Leaves(Tick(World, WeaponCooldown))
    /\ clock' = clock + WeaponCooldown
    /\ UNCHANGED <<variant, keys, presses>>

NextShoot == FireInput \/ FireKey \/ Wait

SpecShoot == InitShoot /\ [][NextShoot]_vars

InitShootV2 == InitShootOf("V2")

\* A keydown of the space bar in V2: handleKeyDown calls shootZombie.
FireKeyV2 ==
    /\ Leaves(shootZombieV2(Logged(World, "Space")))
    /\ UNCHANGED <<variant, keys, clock, presses>>

\* The removal timeout of a killed zombie fires.
Removed ==
    /\ TimeoutDue
    /\ Leaves(RemoveById([World EXCEPT !.ts = Tail(timeouts)], Head(timeouts).id))
    /\ UNCHANGED <<variant, keys, clock, presses>>

WaitV2 == ~TimeoutDue /\ Wait

NextShootV2 == FireKeyV2 \/ Removed \/ WaitV2

SpecShootV2 == InitShootV2 /\ [][NextShootV2]_vars

\* The step is a fire action: a space keydown, or a handleInput that fired.
Fires ==
    /\ steps' # <<>>
    /\ \/ steps'[1] = "Space"
       \/ steps'[1] = "input" /\ weapon'.ammo < weapon.ammo

\* The zombies whose health the step lowered.
Hurt ==
    {i \in 1..Len(zombies) :
        \E j \in 1..Len(zombies') :
            zombies'[j].id = zombies[i].id /\ zombies'[j].health < zombies[i].health}

\* The range-and-cone filter of the engine that is running, and the
\* distance it measures.
Qualifies(z) ==
    IF variant = "V2" THEN TargetableV2(player, z) ELSE Targetable(player, z)
Distance2(z) ==
    IF variant = "V2" THEN Dist2(z.x, z.z, player.x, player.z) + Sq(z.y - player.y)
    ELSE ShotDist2(player, z)

\* C8 as stated: for every ranged combat resolution the enemy that is hit is
\* a living enemy within the range and inside the cone, and no other enemy
\* satisfying both conditions is strictly nearer; an enemy outside the range,
\* such as the one at (100, 0, 100), is never hit whatever its angle.
C8_AsStated ==
    [][\A i \in Hurt :
          /\ zombies[i].isAlive
          /\ Qualifies(zombies[i])
          /\ \A j \in 1..Len(zombies) :
                Qualifies(zombies[j]) => Distance2(zombies[j]) >= Distance2(zombies[i])
          /\ ~(zombies[i].x = 10000 /\ zombies[i].z = 10000)]_vars

\* The zombies standing at the point pt.
At(pt) == {i \in 1..Len(zombies) : zombies[i].x = pt[1] /\ zombies[i].z = pt[2]}

Facing(f) == player.dirX = f[1] /\ player.dirZ = f[2]

\* C9: one ranged combat resolution applies the weapon's fixed damage to
\* exactly one enemy and leaves every other enemy's health and alive flag
\* unchanged.  With the player at the origin facing +Z and two living
\* enemies in the cone at distances 5 and 8, the enemy at distance 5 loses
\* exactly the configured damage and the one at distance 8 is untouched; a
\* single living enemy at (0, 0, 10) is hit and loses exactly that damage.
C9_OneEnemyDamaged ==
    [][Fires =>
          /\ Len(zombies') = Len(zombies)
          /\ \A i \in 1..Len(zombies) :
                \/ zombies'[i] = zombies[i]
                \/ /\ Hurt = {i}
                   /\ zombies'[i].health = Max(0, zombies[i].health - WeaponDamage)
                   /\ zombies'[i].isAlive = (zombies'[i].health > 0)
          /\ (\E i \in 1..Len(zombies) : Targetable(player, zombies[i])) => Hurt # {}
          /\ (Facing(<<0, 1000>>) /\ \E i \in At(<<0, 500>>), j \in At(<<0, 800>>) :
                                       zombies[i].isAlive /\ zombies[j].isAlive)
                => Hurt = At(<<0, 500>>)
          /\ (Facing(<<0, 1000>>) /\ \E i \in At(<<0, 1000>>) :
                    zombies[i].isAlive /\ \A j \in 1..Len(zombies) \ {i} : ~zombies[j].isAlive)
                => Hurt = At(<<0, 1000>>)]_vars

\* After a shot along +Z the zombie at distance 5 has lost exactly the weapon
\* damage and the living zombie at distance 8 behind it has all its health.
C9_Witness ==
    /\ steps # <<>> /\ steps[1] \in {"input", "Space"}
    /\ \E k \in 1..Len(steps) : steps[k] = "render"
    /\ Facing(<<0, 1000>>)
    /\ \E i \in At(<<0, 500>>), j \in At(<<0, 800>>) :
          /\ zombies[i].health = zombies[i].maxHealth - WeaponDamage
          /\ zombies[j].isAlive /\ zombies[j].health = zombies[j].maxHealth

\* C10: if no living enemy passes the range-and-cone filter when the fire
\* action is triggered, the action is a miss that changes no simulation
\* state: every enemy's health, alive flag and position, the score and the
\* kill counter are the same after the action as before it.
C10_MissNoChange ==
    [][(Fires /\ \A i \in 1..Len(zombies) : ~Targetable(player, zombies[i])) =>
          /\ zombies' = zombies
          /\ engine'.gameScore = engine.gameScore
          /\ player'.kills = player.kills]_vars

\* handleInput has just fired a shot, with two living zombies on the field,
\* neither of which passes the filter.
C10_Witness ==
    /\ steps = <<"input">>
    /\ weapon.ammo < WeaponMaxAmmo
    /\ engine.sinceShoot = 0
    /\ \A i \in 1..Len(zombies) : zombies[i].isAlive /\ ~Targetable(player, zombies[i])

-----------------------------------------------------------------------------
(* The V1 engine and the engine of part_013, running.                       *)

\* constructor of part_013: spawnInitialZombies(5), radius 20 at multiples
\* of 72 degrees.
spawnInitialZombiesP13(W) ==
    spawnZombieAt(
        spawnZombieAt(
            spawnZombieAt(spawnZombieAt(spawnZombieAt(W, 2000, 0), 619, 1902), -1618, 1176),
            -1618, -1176),
        619, -1902)

ConstructedP13 ==
    spawnInitialZombiesP13([EmptyWorld EXCEPT !.e.zombieSpawnRate = P13SpawnRate])

InitV1 == Start(Constructed, "V1")
InitP13 == Start(ConstructedP13, "P13")

\* The draws of a frame: the spawn ring, the wander, and the point
\* findSafeSpawnLocation returns on the frame in which the countdown of V1
\* elapses.
EarlyFrameDraws(W) ==
    [ring : RingPoints, jit : Jitters, spawn : {NoPoint}, target : {0},
     safe : IF /\ variant = "V1" /\ W.e.playerDead
               /\ W.e.respawnCountdown > 0 /\ W.e.respawnCountdown <= FrameMs
            THEN findSafeSpawnLocation(W) ELSE {NoPoint}]

\* The draws of a key event: the KeyZ ring, and the zombie the ray of V1's
\* shootZombie meets first.
EarlyKeyDraws(W, code) ==
    [ring : {NoPoint}, jit : {NoPoint}, safe : {NoPoint},
     spawn : IF code = "KeyZ" THEN KeyZPoints ELSE {NoPoint},
     target : IF code = "Space" /\ variant = "V1"
              THEN {0} \cup {i \in 1..Len(W.zs) : W.zs[i].isAlive} ELSE {0}]

\* A frame is run when one was requested and no timer callback is due.  While
\* V1 shows the death screen nothing but the countdown moves, and its frames
\* are followed beyond MaxTime.
FrameReady ==
    /\ engine.running
    /\ ~TimeoutDue
    /\ clock < MaxTime \/ (variant = "V1" /\ engine.gameOver)

\* The time stamp the next frame is called with (lastTime).  Beyond MaxTime
\* only the alternation of the stamps is kept.
NextStamp == IF clock = MaxTime THEN MaxTime + FrameMs ELSE Min(clock + FrameMs, MaxTime)

\* requestAnimationFrame callback: one run of loop.
FrameEarly ==
    /\ FrameReady
    /\ \E rnd \in EarlyFrameDraws(World) :
          Leaves(Tick(IF variant = "P13" THEN loopP13(World, keys, FrameMs, rnd)
                                        ELSE loopV1(World, keys, FrameMs, rnd),
                      FrameMs))
    /\ clock' = NextStamp
    /\ UNCHANGED <<variant, keys, presses>>

\* The callback of a setTimeout that is due: one spawn of a wave of V1, or
\* the removal of a zombie shot dead in part_013.
TimeoutEarly ==
    /\ TimeoutDue
    /\ \E rnd \in EarlyFrameDraws(World) :
          Leaves(IF Head(timeouts).kind = "remove"
                 THEN RemoveById([World EXCEPT !.ts = Tail(timeouts)], Head(timeouts).id)
                 ELSE spawnZombieV1([World EXCEPT !.ts = Tail(timeouts)], rnd.ring))
    /\ UNCHANGED <<variant, keys, clock, presses>>

\* A keydown event: InputSystem.handleKeyDown, then GameEngine.handleKeyDown.
KeyDownEarly(k) ==
    /\ KeyboardReady
    /\ k \notin keys
    /\ k \in Tracked => Cardinality(keys) < MaxHeld
    /\ k = "z" => Len(zombies) < MaxLen
    /\ keys' = IF k \in Tracked THEN keys \cup {k} ELSE keys
    /\ \E rnd \in EarlyKeyDraws(World, KeyCode[k]) :
          Leaves(handleKeyDownEarly(Logged(World, KeyCode[k]), variant, KeyCode[k], rnd))
    /\ presses' = presses + 1
    /\ UNCHANGED <<variant, clock>>

NextEarly ==
    \/ FrameEarly
    \/ TimeoutEarly
    \/ \E k \in Keyboard : KeyDownEarly(k)
    \/ \E k \in Keyboard \cap Tracked : KeyUp(k)

\* Among the steps of NextEarly only FrameEarly moves the time stamp, and
\* only TimeoutEarly takes the due callback off the head of the timer queue.
FrameRuns == FrameReady /\ clock' = NextStamp
TimerFires == TimeoutDue /\ timeouts' = Tail(timeouts)

\* The browser runs every animation frame that was requested and every
\* timer callback that is due; the player may never touch the keyboard.
FairEarly == WF_clock(FrameRuns) /\ WF_timeouts(TimerFires)

SpecV1 == InitV1 /\ [][NextEarly]_vars /\ FairEarly

SpecP13 == InitP13 /\ [][NextEarly]_vars /\ FairEarly

\* C1 as stated: once the player is dead the respawn countdown keeps
\* advancing and, when it elapses, the player becomes alive again: in every
\* execution a dead player is eventually alive again, death is never a dead
\* end.
C1_AsStated == ~player.isAlive ~> player.isAlive

\* C2 as stated: while the player is dead, a press of the R key makes the
\* transition from dead to alive fire: after the key press, and the frames
\* that follow it, the player is alive again.
C2_AsStated ==
    (steps # <<>> /\ steps[1] = "KeyR" /\ engine.playerDead) ~> player.isAlive

-----------------------------------------------------------------------------
(* Properties of the current engine (V3).                                   *)

\* The zombies that exist before and after a step keep their health, their
\* alive flag and are not newly ragdolled.
ZombiesUnhurt ==
    \A i \in 1..Len(zombies), j \in 1..Len(zombies') :
        zombies[i].id = zombies'[j].id =>
            /\ zombies'[j].health = zombies[i].health
            /\ zombies'[j].isAlive = zombies[i].isAlive
            /\ zombies'[j].isRagdolled => zombies[i].isRagdolled

\* C3: from the moment the player's health reaches 0 until the respawn, no
\* shot, melee attack or reload takes effect and movement input does not
\* move the player: over every step that starts and ends with a dead
\* player, whether frame, timeout or key event, the ammunition is
\* unchanged, the shot and melee stamps are not renewed, no zombie is hurt
\* or knocked down, score and kills are unchanged, and the player's position
\* and facing are unchanged.
C3_DeadInputDisabled ==
    [][(~player.isAlive /\ ~player'.isAlive) =>
          /\ weapon' = weapon
          /\ engine'.sinceShoot >= engine.sinceShoot
          /\ engine'.sinceMelee >= engine.sinceMelee
          /\ ZombiesUnhurt
          /\ engine'.gameScore = engine.gameScore
          /\ player'.kills = player.kills
          /\ player'.x = player.x /\ player'.z = player.z
          /\ player'.dirX = player.dirX /\ player'.dirZ = player.dirZ]_vars

\* A dead player for whom at least one frame has run, with the shoot key
\* held, a loaded weapon off cooldown and a zombie inside the firing cone.
C3_Witness ==
    /\ ~player.isAlive
    /\ engine.respawnCountdown < respawnTime
    /\ isShooting(keys)
    /\ canFire(weapon)
    /\ engine.sinceShoot >= WeaponCooldown
    /\ \E i \in 1..Len(zombies) : Targetable(player, zombies[i])
\* The steps of the most recent handler that are step a.
Positions(a) == {i \in 1..Len(steps) : steps[i] = a}

\* The phase of a step in the order the ordering guarantee states: player
\* update, enemy updates, collision and attack checks, rendering.
Phase(a) ==
    CASE a = "playerUpdate" -> 1
      [] a = "zombieUpdate" -> 2
      [] a \in {"collision", "attack"} -> 3
      [] a = "render" -> 4
      [] OTHER -> 0

\* C4 as stated: within one frame the player update precedes all enemy
\* updates, all enemy updates precede the collision and attack checks, and
\* those precede rendering: no step of a later phase runs before a step of
\* an earlier phase.
C4_AsStated ==
    \A i, j \in 1..Len(steps) :
        (i < j /\ Phase(steps[i]) > 0 /\ Phase(steps[j]) > 0)
            => Phase(steps[i]) <= Phase(steps[j])

\* C4 as amended: a frame starts with the input handling and ends with the
\* rendering; the collision check of the player's movement precedes the
\* player update, the player update precedes every enemy update, and every
\* enemy update is followed at once by the attack check of that enemy,
\* before the next enemy is updated.
C4_FrameOrder ==
    (steps # <<>> /\ steps[1] = "input") =>
        /\ steps[Len(steps)] = "render"
        /\ Cardinality(Positions("playerUpdate")) = 1
        /\ \A i \in Positions("collision") : \A j \in Positions("playerUpdate") : i < j
        /\ \A i \in Positions("playerUpdate") : \A j \in Positions("zombieUpdate") : i < j
        /\ \A i \in Positions("zombieUpdate") : i < Len(steps) /\ steps[i + 1] = "attack"
        /\ \A i \in Positions("attack") : i > 1 /\ steps[i - 1] = "zombieUpdate"
        /\ \A i \in Positions("attack") : i < Len(steps)

\* A frame in which the player moved and two zombies or more were updated.
C4_Witness ==
    /\ steps # <<>> /\ steps[1] = "input"
    /\ Positions("collision") # {}
    /\ Cardinality(Positions("zombieUpdate")) >= 2
\* C5 as stated: while the player is dead world updates are disabled: over
\* every step between the death and the respawn no enemy position changes,
\* no enemy is spawned, and the wave number, the spawn interval and the
\* difficulty timer do not change.
C5_AsStated ==
    [][(~player.isAlive /\ ~player'.isAlive) =>
          /\ \A i \in 1..Len(zombies), j \in 1..Len(zombies') :
                zombies[i].id = zombies'[j].id =>
                    zombies'[j].x = zombies[i].x /\ zombies'[j].z = zombies[i].z
          /\ Ids(zombies') \subseteq Ids(zombies)
          /\ engine'.waveNumber = engine.waveNumber
          /\ engine'.zombieSpawnRate = engine.zombieSpawnRate
          /\ engine'.timeSinceLastDifficultyIncrease
                = engine.timeSinceLastDifficultyIncrease]_vars

-----------------------------------------------------------------------------
(* Wave escalation on its own: increaseDifficulty, the callbacks of its     *)
(* timeouts, the death of the player and the respawn, in V3 and in V1,      *)
(* over as many waves as it takes the spawn interval to reach its floor.    *)

\* The waves are followed up to this wave number.
MaxWaveNumber == 50

InitWaves == Start(Constructed, "V3") \/ Start(Constructed, "V1")

\* The difficulty timer of loop elapses: increaseDifficulty() is called.  The
\* staggered spawns of a wave (at most 7 s) are over before the next wave
\* (10 s later).
Escalated ==
    /\ ~engine.gameOver
    /\ timeouts = <<>>
    /\ engine.waveNumber < MaxWaveNumber
    /\ Leaves(IF variant = "V1"
              THEN increaseDifficultyV1(Logged(World, "increaseDifficulty"))
              ELSE increaseDifficulty(Logged(World, "increaseDifficulty")))
    /\ UNCHANGED <<variant, keys, clock, presses>>

\* The point of the spawn ring the spawns of the waves are put at.
WaveRing == <<6000, 0>>

\* The callback of the timeout that is due: the batch of respawnPlayer, or a
\* spawn of the wave (V3 tests player.isAlive, V1 does not).
WaveCallback(W, kind) ==
    IF kind = "batch" THEN spawnInitialZombies(W)
    ELSE IF variant = "V1" THEN spawnZombieV1(W, WaveRing)
    ELSE IF W.p.isAlive THEN spawnZombie(W, WaveRing)
    ELSE W

WaveTimer ==
    /\ TimeoutDue
    /\ Leaves(WaveCallback([World EXCEPT !.ts = Tail(timeouts)], Head(timeouts).kind))
    /\ UNCHANGED <<variant, keys, clock, presses>>

\* The frames of half a second (the gap between two spawns of a wave) on the
\* respawn countdown: updateRespawnCountdown, which in V1 respawns the
\* player at loc when the countdown elapses.
WaveCountdown(W, loc) ==
    IF ~W.e.playerDead THEN W
    ELSE IF variant = "V1" THEN updateRespawnCountdownV1(W, WaveSpawnGap, loc)
    ELSE updateRespawnCountdown(W, WaveSpawnGap)

\* Half a second passes while a timeout or the countdown is pending.
TimePassed ==
    /\ ~TimeoutDue
    /\ timeouts # <<>> \/ engine.respawnCountdown > 0
    /\ \E loc \in (IF variant = "V1" /\ engine.playerDead
                   THEN findSafeSpawnLocation(World) ELSE {NoPoint}) :
          Leaves(Tick(WaveCountdown(Logged(World, "wait"), loc), WaveSpawnGap))
    /\ UNCHANGED <<variant, keys, clock, presses>>

\* The player dies (KeyK: takeDamage(health), handlePlayerDeath).
Died ==
    /\ ~engine.playerDead
    /\ Leaves(IF variant = "V1"
              THEN handleKeyDownEarly(Logged(World, "KeyK"), variant, "KeyK",
                                      CHOOSE rnd \in EarlyKeyDraws(World, "KeyK") : TRUE)
              ELSE handleKeyDown(Logged(World, "KeyK"), "KeyK",
                                 CHOOSE rnd \in KeyDraws(World, "KeyK") : TRUE))
    /\ UNCHANGED <<variant, keys, clock, presses>>

\* The R key is pressed by the dead player of V3: handleKeyDown and the
\* respawn listeners, which respawn once the countdown has elapsed.
RespawnKey ==
    /\ variant = "V3"
    /\ engine.playerDead
    /\ \E rnd \in KeyDraws(World, "KeyR") :
          Leaves(RespawnListeners(handleKeyDown(Logged(World, "KeyR"), "KeyR", rnd),
                                  "KeyR", rnd, listeners))
    /\ UNCHANGED <<variant, keys, clock, presses>>

NextWaves == Escalated \/ WaveTimer \/ TimePassed \/ Died \/ RespawnKey

SpecWaves == InitWaves /\ [][NextWaves]_vars

\* The floor of the spawn interval of the engine that is running.
SpawnFloor == IF variant = "V1" THEN V1MinSpawnRate ELSE minSpawnRate

\* C11 as stated: over any sequence of frames, wave escalations, deaths and
\* respawns the spawn interval never increases from one step to the next and
\* never drops below the configured floor.
C11_AsStated ==
    /\ [](engine.zombieSpawnRate >= SpawnFloor)
    /\ [][engine'.zombieSpawnRate <= engine.zombieSpawnRate]_vars

\* C11, amended: the spawn interval never drops below the floor, and it
\* never increases from one step to the next except in the step in which the
\* dead player respawns, which sets it back to the initial interval.
C11_MonotonicUntilRespawn ==
    /\ [](engine.zombieSpawnRate >= SpawnFloor)
    /\ [][\/ engine'.zombieSpawnRate <= engine.zombieSpawnRate
          \/ /\ engine.playerDead /\ ~engine'.playerDead
             /\ engine'.zombieSpawnRate = initialZombieSpawnRate]_vars

\* An escalation has just met the floor: without the floor the interval
\* would have gone below it.
C11_Witness ==
    /\ steps # <<>> /\ steps[1] = "increaseDifficulty"
    /\ engine.zombieSpawnRate = SpawnFloor
    /\ engine.waveNumber > 1

-----------------------------------------------------------------------------
\* The cap on the number of zombies.

\* C12 as stated: the number of zombies in the active collection never
\* exceeds maxZombies, whatever timer spawns, wave spawns, initial batches
\* and manual (Z key) spawns occur.
C12_AsStated == Len(zombies) <= maxZombies

-----------------------------------------------------------------------------
(* Eviction at the cap on its own: spawnZombie is called with the array at  *)
(* the cap, the zombies anywhere around the player, some of them corpses    *)
(* waiting for cleanupDeadZombies.                                          *)

\* Where the zombies stand: two points 20 units from the origin, one at 5
\* and one at 30 units.
EvictPoints == {<<500, 0>>, <<2000, 0>>, <<0, 2000>>, <<-3000, 0>>}
\* Where the player stands.
EvictPlayerPoints == {<<0, 0>>, <<1500, 0>>}
\* Points of the spawn ring (radius 50 to 70).
EvictRing == {<<6000, 0>>, <<0, -5000>>}
\* spawnZombie is followed for this many calls.
MaxSpawns == 2

EvictZombieAt(id, pt, alive) ==
    IF alive THEN NewZombie(id, pt[1], pt[2])
    ELSE ZombieTakeDamage(NewZombie(id, pt[1], pt[2]), WeaponDamage)

EvictWorld(pp, at, alive) ==
    [EmptyWorld EXCEPT !.p.x = pp[1], !.p.z = pp[2],
                       !.zs = [i \in 1..maxZombies |-> EvictZombieAt(i - 1, at[i], alive[i])],
                       !.sc = [meshes |-> 0..(maxZombies - 1), bars |-> 0..(maxZombies - 1)]]

InitEvict ==
    \E v \in {"V3", "V1"}, pp \in EvictPlayerPoints, at \in [1..maxZombies -> EvictPoints],
       alive \in [1..maxZombies -> BOOLEAN] :
        Start(EvictWorld(pp, at, alive), v)

\* The callback of a wave timeout, or the spawn timer of loop: spawnZombie().
SpawnCalled ==
    /\ presses < MaxSpawns
    /\ \E pt \in EvictRing :
          Leaves(IF variant = "V1" THEN spawnZombieV1(Logged(World, "spawn"), pt)
                 ELSE spawnZombie(Logged(World, "spawn"), pt))
    /\ presses' = presses + 1
    /\ UNCHANGED <<variant, keys, clock>>

NextEvict == SpawnCalled

SpecEvict == InitEvict /\ [][NextEvict]_vars

\* The distance of zombie i from the player, squared.
FromPlayer(i) == Dist2(zombies[i].x, zombies[i].z, player.x, player.z)

\* A spawn is attempted with the array at the cap.
SpawnAtCap ==
    /\ Len(zombies) >= maxZombies
    /\ variant = "V3" => player.isAlive
    /\ steps' = <<"spawn">>
    /\ presses' = presses + 1

\* Zombie k alone leaves the array and the new zombie is pushed at its end.
EvictedAndAdded(k) ==
    /\ Len(zombies') = Len(zombies)
    /\ \A i \in 1..(Len(zombies) - 1) : zombies'[i] = RemoveAt(zombies, k)[i]
    /\ zombies'[Len(zombies')].id \notin Ids(zombies)
    /\ zombies'[Len(zombies')].isAlive
    /\ <<zombies'[Len(zombies')].x, zombies'[Len(zombies')].z>> \in EvictRing

\* C13 as stated: a spawn at the cap evicts exactly one zombie, no zombie of
\* the array is strictly further from the player than the evicted one, and
\* the new zombie is then added.
C13_AsStated ==
    [][SpawnAtCap =>
         \E k \in 1..Len(zombies) :
             /\ EvictedAndAdded(k)
             /\ \A j \in 1..Len(zombies) : FromPlayer(j) <= FromPlayer(k)]_vars

\* C13, amended: a spawn at the cap evicts exactly one zombie and then adds
\* the new one; the evicted zombie is the first living zombie at the largest
\* distance among the living ones (corpses are not looked at), or the first
\* zombie of the array when there is no living zombie at a positive distance.
C13_FurthestLiving ==
    [][SpawnAtCap =>
         \E k \in 1..Len(zombies) :
             /\ EvictedAndAdded(k)
             /\ \/ /\ zombies[k].isAlive
                   /\ FromPlayer(k) > 0
                   /\ \A j \in 1..Len(zombies) :
                         zombies[j].isAlive => FromPlayer(j) <= FromPlayer(k)
                \/ /\ k = 1
                   /\ \A j \in 1..Len(zombies) : ~zombies[j].isAlive \/ FromPlayer(j) = 0]_vars

\* A spawn at the cap has evicted a living zombie and left a corpse in the
\* array.
C13_Witness ==
    /\ steps = <<"spawn">>
    /\ Len(zombies) = maxZombies
    /\ \E i \in 1..Len(zombies) : ~zombies[i].isAlive
    /\ \E i \in 1..Len(zombies) : zombies[i].isAlive /\ <<zombies[i].x, zombies[i].z>> \in EvictPoints

-----------------------------------------------------------------------------
(* The respawn on its own: findSafeSpawnLocation with its loop of attempts, *)
(* called by respawnPlayer with zombies around the candidate points.        *)

maxAttempts == 20            \* const maxAttempts = 20

\* Where the zombies stand: 5 units from each candidate point and 5 units
\* from the fallback point.
RespawnZombiePoints == {<<3500, 0>>, <<0, 4500>>, <<0, -4500>>}

\* The points drawn by the attempts: the first n draws give the point a, the
\* later ones the point b.
AttemptDraws ==
    {[i \in 1..maxAttempts |-> IF i <= n THEN a ELSE b] :
        n \in 0..maxAttempts, a \in SafePoints, b \in SafePoints}

\* GameEngine.findSafeSpawnLocation(): the loop over the attempts, then the
\* fallback point fb at radius 40.  The result tells the point returned, the
\* number of attempts made and whether an attempt succeeded.
RECURSIVE SafeSearch(_, _, _, _)
SafeSearch(W, draws, fb, attempt) ==
    IF attempt > maxAttempts THEN [pt |-> fb, attempts |-> maxAttempts, found |-> FALSE]
    ELSE IF IsSafe(W, draws[attempt]) THEN [pt |-> draws[attempt], attempts |-> attempt, found |-> TRUE]
    ELSE SafeSearch(W, draws, fb, attempt + 1)

\* The trace of a search: one entry for each attempt, and one for the
\* fallback.
SearchLogged(W, r) ==
    [W EXCEPT !.log = W.log \o [i \in 1..r.attempts |-> "attempt"]
                            \o (IF r.found THEN <<>> ELSE <<"fallback">>)]

\* The dead player on the last frame of the countdown, among the zombies.
RespawnWorld(at, alive) ==
    [handlePlayerDeath(
        [EmptyWorld EXCEPT !.p = PlayerTakeDamage(EmptyWorld.p, EmptyWorld.p.health),
                           !.zs = [i \in 1..maxZombies |-> EvictZombieAt(i - 1, at[i], alive[i])],
                           !.sc = [meshes |-> 0..(maxZombies - 1), bars |-> 0..(maxZombies - 1)]])
     EXCEPT !.e.respawnCountdown = FrameMs]

InitRespawn ==
    \E at \in [1..maxZombies -> RespawnZombiePoints], alive \in [1..maxZombies -> BOOLEAN] :
        \/ Start(RespawnWorld(at, alive), "V1")
        \/ Start(updateRespawnCountdown(RespawnWorld(at, alive), FrameMs), "V3")

\* The respawn of V1: the frame on which the countdown elapses calls
\* respawnPlayer, which searches among the zombies as they stand.
CountdownRespawn ==
    /\ variant = "V1"
    /\ engine.playerDead
    /\ \E draws \in AttemptDraws, fb \in FallbackPoints :
          LET r == SafeSearch(World, draws, fb, 1)
          IN  Leaves(updateRespawnCountdownV1(SearchLogged(Logged(World, "respawn"), r),
                                              FrameMs, r.pt))
    /\ UNCHANGED <<variant, keys, clock, presses>>

\* The respawn of V3: the R key after the countdown; respawnPlayer clears
\* the zombies before it searches.
KeyRespawn ==
    /\ variant = "V3"
    /\ engine.playerDead
    /\ \E draws \in AttemptDraws, fb \in FallbackPoints :
          LET r == SafeSearch(clearAllZombies(World), draws, fb, 1)
              rnd == [ring |-> NoPoint, jit |-> NoPoint, spawn |-> NoPoint, safe |-> r.pt]
              W1 == handleKeyDown(SearchLogged(Logged(World, "respawn"), r), "KeyR", rnd)
          IN  Leaves(RespawnListeners(W1, "KeyR", rnd, listeners))
    /\ UNCHANGED <<variant, keys, clock, presses>>

NextRespawn == CountdownRespawn \/ KeyRespawn

SpecRespawn == InitRespawn /\ [][NextRespawn]_vars

Attempts == Cardinality({i \in 1..Len(steps) : steps[i] = "attempt"})
FellBack == \E i \in 1..Len(steps) : steps[i] = "fallback"

\* C14: after a respawn the player stands at least safeDistance from every
\* living zombie, unless no attempt of the maxAttempts found such a point, in
\* which case the player stands on the fallback point; the search makes at
\* most maxAttempts attempts.
C14_SafeRespawn ==
    (steps # <<>> /\ steps[1] = "respawn") =>
        /\ player.isAlive
        /\ Attempts >= 1 /\ Attempts <= maxAttempts
        /\ ~FellBack =>
              \A i \in 1..Len(zombies) :
                  zombies[i].isAlive =>
                      Dist2(player.x, player.z, zombies[i].x, zombies[i].z) >= Sq(safeDistance)
        /\ FellBack => Attempts = maxAttempts /\ <<player.x, player.z>> \in FallbackPoints

\* A respawn among living zombies that found a safe point after failed
\* attempts.
C14_Witness ==
    /\ steps # <<>> /\ steps[1] = "respawn"
    /\ ~FellBack
    /\ Attempts > 1
    /\ \E i \in 1..Len(zombies) : zombies[i].isAlive

\* A respawn on the fallback point, within safeDistance of a living zombie.
C14_Fallback ==
    /\ steps # <<>> /\ steps[1] = "respawn"
    /\ FellBack
    /\ \E i \in 1..Len(zombies) :
          /\ zombies[i].isAlive
          /\ Dist2(player.x, player.z, zombies[i].x, zombies[i].z) < Sq(safeDistance)

-----------------------------------------------------------------------------
(* Steering on its own: Zombie.update of the three Zombie classes of the    *)
(* repository, applied to one zombie around a player who stands still.      *)

PlainMinDistance == 10       \* distance > 0.1
StubSpeed == 2000            \* const speed = 2
StubMeshY == 50              \* mesh.position.y = 0.5

\* Zombie.update of the second class of part_008 and of part_009: the
\* pursuit has no buffer zone, only the test distance > 0.1.
PursuitPlain(z, dt, px, pz) ==
    LET dx == px - z.x
        dz == pz - z.z
        d2 == Sq(dx) + Sq(dz)
        distance == Sqrt(d2)
    IN  IF d2 > Sq(PlainMinDistance)
        THEN LET chaseSpeed == (z.speed * (15000 - Min(distance, detectionRange))) \div 10000
                 step == (chaseSpeed * dt) \div 10000
             IN  [z EXCEPT !.x = z.x + Quot(dx * step, distance),
                           !.z = z.z + Quot(dz * step, distance),
                           !.y = 0]
        ELSE z

ZombieUpdatePlain(z, dt, px, pz, jit) ==
    IF Sq(px - z.x) + Sq(pz - z.z) <= Sq(detectionRange)
    THEN PursuitPlain(z, dt, px, pz)
    ELSE wander(z, jit)

\* Zombie.update of src/src/components/Zombie.tsx: a step of speed *
\* deltaTime along the normalized vector to the player, in three dimensions;
\* Vector3.normalize leaves the zero vector as it is.
ZombieUpdateStub(z, dt, px, py, pz) ==
    LET dx == px - z.x
        dy == py - z.y
        dz == pz - z.z
        length == Sqrt(Sq(dx) + Sq(dy) + Sq(dz))
        step == (StubSpeed * dt) \div 10000
    IN  IF length = 0 THEN z
        ELSE [z EXCEPT !.x = z.x + Quot(dx * step, length),
                       !.y = z.y + Quot(dy * step, length),
                       !.z = z.z + Quot(dz * step, length)]

\* The three classes.
ZombieClasses == {"Zombie", "ZombiePlain", "ZombieStub"}

\* Where the zombie stands: at 0.5, 0.58, 0.6, 0.75 and 3 units from the
\* player, at the detection range (50) and beyond it (50.01, 60).
SteerPoints ==
    {<<50, 0>>, <<58, 0>>, <<60, 0>>, <<75, 0>>, <<300, 0>>, <<3000, 4000>>, <<5001, 0>>,
     <<3600, 4800>>}
\* deltaTime of a frame at 60 Hz and of a frame at the cap of 0.1 s.
SteerFrames == {16, FrameMs}
\* The jitter of wander grows with deltaTime.
SteerJitters(dt) == IF dt = FrameMs THEN Jitters ELSE {<<0, 0>>}
\* The zombie has lived through at most this many waves of increaseDifficulty.
MaxScalings == 13
\* The zombie is followed for this many frames.
MaxSteers == 3

RECURSIVE ScaledTimes(_, _)
ScaledTimes(z, n) == IF n = 0 THEN z ELSE ScaledTimes(ScaleZombie(z), n - 1)

SteerZombie(class, pt, n) ==
    IF class = "ZombieStub" THEN [NewZombie(0, pt[1], pt[2]) EXCEPT !.y = StubMeshY, !.speed = StubSpeed]
    ELSE ScaledTimes(NewZombie(0, pt[1], pt[2]), n)

InitSteer ==
    \E class \in ZombieClasses, pt \in SteerPoints, n \in 0..MaxScalings :
        /\ class = "ZombieStub" => n = 0
        /\ Start([EmptyWorld EXCEPT !.zs = <<SteerZombie(class, pt, n)>>,
                                    !.sc = [meshes |-> {0}, bars |-> {0}]], class)

\* One frame of the zombie loop: zombie.update(deltaTime, playerPos).
Steered ==
    /\ clock < MaxSteers
    /\ \E dt \in SteerFrames : \E jit \in SteerJitters(dt) :
          zombies' = <<CASE variant = "Zombie" ->
                              ZombieUpdate(zombies[1], dt, player.x, player.z, player.nan, jit)
                         [] variant = "ZombiePlain" ->
                              ZombieUpdatePlain(zombies[1], dt, player.x, player.z, jit)
                         [] OTHER ->
                              ZombieUpdateStub(zombies[1], dt, player.x, player.y, player.z)>>
    /\ steps' = <<"zombieUpdate">>
    /\ clock' = clock + 1
    /\ UNCHANGED <<variant, player, weapon, engine, timeouts, listeners, keys, scene, presses>>

NextSteer == Steered

SpecSteer == InitSteer /\ [][NextSteer]_vars

\* The squared distance between the zombie and the player on the ground.
Apart == Dist2(zombies[1].x, zombies[1].z, player.x, player.z)
\* The displacement of the frame is a jitter of wander.
Wandered ==
    \E dt \in SteerFrames : \E jit \in SteerJitters(dt) :
        /\ zombies'[1].x = zombies[1].x + jit[1]
        /\ zombies'[1].z = zombies[1].z + jit[2]

\* C15 as stated: in every frame in which the zombie is further from the
\* player than the detection range, its displacement is the jitter of the
\* wander path, not a step toward the player.
C15_AsStated == [][(clock' = clock + 1 /\ Apart > Sq(detectionRange)) => Wandered]_vars

\* The same for the two classes that have a detection range.
C15_DetectingClasses ==
    [][(clock' = clock + 1 /\ variant # "ZombieStub" /\ Apart > Sq(detectionRange)) => Wandered]_vars

\* C16 as stated: a zombie that is at least minDistanceBuffer (0.5) from the
\* player before its update is at least that far from the player after it.
C16_AsStated ==
    [][(clock' = clock + 1 /\ Apart >= Sq(minDistanceBuffer)) => Apart' >= Sq(minDistanceBuffer)]_vars

\* The same for the class that has the buffer zone.
C16_BufferedClass ==
    [][(clock' = clock + 1 /\ variant = "Zombie" /\ Apart >= Sq(minDistanceBuffer))
          => Apart' >= Sq(minDistanceBuffer)]_vars

\* The same for the class that has the buffer zone, at the speed of a new
\* zombie.
C16_BufferedUnscaled ==
    [][(/\ clock' = clock + 1 /\ variant = "Zombie" /\ zombies[1].speed = ZombieSpeed
        /\ Apart >= Sq(minDistanceBuffer))
          => Apart' >= Sq(minDistanceBuffer)]_vars

-----------------------------------------------------------------------------
(* stop().  The field stopped of the engine record is the model's note that *)
(* stop() has been called: stop() of V3 assigns no field of the engine,     *)
(* stop() of V1 sets gameOver.                                              *)

\* UISystem.cleanup(): every health bar leaves the scene.
cleanup(sc) == [sc EXCEPT !.bars = {}]

\* GameEngine.stop().  removeEventListener is given a new function made by
\* bind, which is not the listener that was added: the keydown listener
\* stays.  No requestAnimationFrame is cancelled.
stop(W, v) ==
    [W EXCEPT !.sc = cleanup(W.sc),
              !.e.gameOver = IF v = "V1" THEN TRUE ELSE W.e.gameOver,
              !.e.stopped = TRUE]

\* The engine is followed for this long around the call of stop().
MaxStopTime == 1000
\* Key presses around the call of stop().
MaxStopKeys == 1

\* The V1 engine with the player dead and two frames of the countdown left;
\* nothing moves in V1 while the player is dead.
LateCountdown ==
    [handlePlayerDeath([Constructed EXCEPT !.p = PlayerTakeDamage(Constructed.p, Constructed.p.health)])
     EXCEPT !.e.respawnCountdown = 2 * FrameMs]

InitStop == Start(Constructed, "V3") \/ Start(Constructed, "V1") \/ Start(LateCountdown, "V1")

StopCalled ==
    /\ ~engine.stopped
    /\ Leaves(stop(Logged(World, "stop"), variant))
    /\ UNCHANGED <<variant, keys, clock, presses>>

\* The callback of requestAnimationFrame, before and after stop().
StopFrame ==
    /\ engine.running
    /\ ~TimeoutDue
    /\ clock < MaxStopTime
    /\ IF variant = "V1"
       THEN \E rnd \in EarlyFrameDraws(World) :
               Leaves(Tick(loopV1(Logged(World, "frame"), keys, FrameMs, rnd), FrameMs))
       ELSE \E rnd \in FrameDraws :
               Leaves(Tick(loop(Logged(World, "frame"), keys, Min(FrameMs, MaxDeltaTime), rnd), FrameMs))
    /\ clock' = clock + FrameMs
    /\ UNCHANGED <<variant, keys, presses>>

\* A keydown of K or Z, before and after stop().
StopKey(code) ==
    /\ presses < MaxStopKeys
    /\ IF variant = "V1"
       THEN \E rnd \in EarlyKeyDraws(World, code) :
               Leaves(handleKeyDownEarly(Logged(World, code), variant, code, rnd))
       ELSE \E rnd \in KeyDraws(World, code) :
               Leaves(RespawnListeners(handleKeyDown(Logged(World, code), code, rnd),
                                       code, rnd, listeners))
    /\ presses' = presses + 1
    /\ UNCHANGED <<variant, keys, clock>>

NextStop == StopCalled \/ StopFrame \/ \E code \in {"KeyK", "KeyZ"} : StopKey(code)

SpecStop == InitStop /\ [][NextStop]_vars

\* Every zombie of the array has its mesh and its health bar in the scene,
\* and the scene holds no mesh or health bar of another zombie.
Paired == Ids(zombies) = scene.meshes /\ Ids(zombies) = scene.bars

\* C17 as stated: at the end of every frame, key handler and timer callback
\* a zombie is in the array if and only if its mesh and its health bar are
\* in the scene.
C17_AsStated == (steps # <<>> /\ steps[1] # "stop") => Paired

\* The same until stop() is called.
C17_UntilStopped == ~engine.stopped => Paired

\* The state of the game: the player, the zombies, and the timers, counters
\* and flags of the engine that the loop maintains.
GameState ==
    <<player, zombies, weapon, engine.zombieSpawnTime, engine.zombieSpawnRate, engine.waveNumber,
      engine.timeSinceLastDifficultyIncrease, engine.gameScore, engine.gameOver,
      engine.playerDead, engine.respawnCountdown>>

\* C18 as stated: once stop() has been called no later step updates the
\* state of the game.
C18_AsStated == [][engine.stopped => GameState' = GameState]_vars

\* The same for the frames of V1, whose stop() sets gameOver.
C18_FramesOfV1 ==
    [][(engine.stopped /\ variant = "V1" /\ clock' # clock) => GameState' = GameState]_vars

\* The updates of V1 have restarted after stop(): the countdown that was
\* running when stop() was called has elapsed and respawnPlayer has cleared
\* gameOver.
C18_Restarted == engine.stopped /\ variant = "V1" /\ ~engine.gameOver /\ player.isAlive

-----------------------------------------------------------------------------
(* The credit of a kill and the ammunition.                                 *)

\* C19 as stated: a ranged hit that brings the zombie's health to 0 marks it
\* dead, records its death time, adds 100 plus floor(10 * distance) to the
\* score and 1 to the kills, all in the same step; a hit that does not kill
\* changes neither the score nor the kills.
C19_AsStated ==
    [][Fires =>
          \A i \in Hurt :
              IF zombies'[i].health <= 0
              THEN /\ ~zombies'[i].isAlive
                   /\ zombies'[i].deadFor # NoDeathTime
                   /\ engine'.gameScore =
                         engine.gameScore + KillScore + (Sqrt(Distance2(zombies[i])) \div 10)
                   /\ player'.kills = player.kills + 1
              ELSE /\ zombies'[i].isAlive
                   /\ engine'.gameScore = engine.gameScore
                   /\ player'.kills = player.kills]_vars

\* A shot has killed the zombie 8 units ahead: 100 points and the bonus of 79
\* for the distance from the weapon tip.
C19_KillAtEight ==
    /\ steps # <<>> /\ steps[1] \in {"input", "Space"}
    /\ \E i \in At(<<0, 800>>) : ~zombies[i].isAlive /\ zombies[i].deadFor = 0
    /\ player.kills = 1
    /\ engine.gameScore > KillScore

\* The ammunition stays within its bounds and only reload raises it.
AmmoKept ==
    /\ [](weapon.ammo >= 0 /\ weapon.ammo <= WeaponMaxAmmo)
    /\ [][weapon'.ammo > weapon.ammo => weapon'.ammo = WeaponMaxAmmo]_vars

\* The step resolves a shot: shootZombie runs with the player alive, from a
\* space keydown or from handleInput.
ShotResolved ==
    /\ player.isAlive
    /\ steps' # <<>>
    /\ \/ steps'[1] = "Space"
       \/ steps'[1] = "input" /\ engine'.sinceShoot < engine.sinceShoot

\* C20 as stated: every shot, whether triggered by the held fire input in
\* the frame loop or by a space keydown, takes exactly one round, no shot is
\* resolved with the ammunition at 0, and only reload raises the ammunition,
\* which stays between 0 and maxAmmo.
C20_AsStated ==
    /\ AmmoKept
    /\ [][ShotResolved => weapon.ammo > 0 /\ weapon'.ammo = weapon.ammo - 1]_vars

\* The same for the shots of handleInput alone, whose reload block runs
\* after the shot when the reload key is held as well.
C20_HeldFire ==
    /\ AmmoKept
    /\ [][(player.isAlive /\ steps' # <<>> /\ steps'[1] = "input"
            /\ engine'.sinceShoot < engine.sinceShoot) =>
             /\ weapon.ammo > 0
             /\ weapon'.ammo = IF "r" \in keys THEN WeaponMaxAmmo ELSE weapon.ammo - 1]_vars

\* A space keydown has hurt a zombie and the magazine is still full.
C20_FreeShot ==
    /\ steps # <<>> /\ steps[1] = "Space"
    /\ weapon.ammo = WeaponMaxAmmo
    /\ \E k \in 1..Len(steps) : steps[k] = "render"


\* ---------------------------------------------------------------------
\* Wave scaling of the living zombies (increaseDifficulty of V3).
\* ---------------------------------------------------------------------

\* C21 as stated: over any number of escalations the speed of a zombie never
\* exceeds twice, and its maximum health never exceeds three times, the value
\* it was spawned with (the constructor's speed and health).
C21_AsStated ==
    \A i \in 1..Len(zombies) :
        /\ zombies[i].speed <= 2 * ZombieSpeed
        /\ zombies[i].maxHealth <= 3 * ZombieHealth

\* One escalation never more than doubles a speed or triples a maximum
\* health: the two Math.min caps are taken on the current value.
C21_CapsPerWave ==
    [][\A i \in 1..Len(zombies) :
          \A j \in 1..Len(zombies') :
              zombies'[j].id = zombies[i].id =>
                  /\ zombies'[j].speed <= 2 * zombies[i].speed
                  /\ zombies'[j].maxHealth <= 3 * zombies[i].maxHealth]_vars

\* A zombie that an escalation has scaled past both stated bounds.
C21_Outgrown ==
    \E i \in 1..Len(zombies) :
        /\ zombies[i].isAlive
        /\ zombies[i].speed > 2 * ZombieSpeed
        /\ zombies[i].maxHealth > 3 * ZombieHealth


\* ---------------------------------------------------------------------
\* The two timers of the loop.
\* ---------------------------------------------------------------------

\* A frame of the loop ran in this step.
FrameStep == clock' # clock

\* The branch of loop that advances the two timers is taken: V3 tests
\* player.isAlive, V1 tests gameOver.
TimersRun == IF variant = "V3" THEN player.isAlive ELSE ~engine.gameOver

\* The deltaTime the frames are run with.
FrameDelta == IF variant = "V3" THEN Min(FrameMs, MaxDeltaTime) ELSE FrameMs

SpawnTimerReached ==
    TimersRun /\ engine.zombieSpawnTime + FrameDelta >= engine.zombieSpawnRate

DifficultyTimerReached ==
    /\ TimersRun
    /\ engine.timeSinceLastDifficultyIncrease + FrameDelta >= difficultyIncreaseInterval

\* A zombie is in the array after the step that was not in it before.
ZombieAdded ==
    \E j \in 1..Len(zombies') : \A i \in 1..Len(zombies) : zombies'[j].id # zombies[i].id

\* C22 as stated: in any frame in which the spawn timer has reached the
\* current spawn interval a new enemy is spawned and the spawn timer is reset
\* to 0, and in any frame in which the difficulty timer has reached the
\* escalation interval exactly one wave escalation happens and the
\* difficulty timer is reset to 0.
C22_AsStated ==
    [][FrameStep =>
          /\ SpawnTimerReached => (ZombieAdded /\ engine'.zombieSpawnTime = 0)
          /\ DifficultyTimerReached =>
                 /\ engine'.waveNumber = engine.waveNumber + 1
                 /\ engine'.timeSinceLastDifficultyIncrease = 0]_vars

\* The difficulty timer alone: it fires once and resets in every variant.
C22_DifficultyTimer ==
    [][(FrameStep /\ DifficultyTimerReached) =>
          /\ engine'.waveNumber = engine.waveNumber + 1
          /\ engine'.timeSinceLastDifficultyIncrease = 0]_vars

\* The spawn timer of V1 stands past the spawn interval with the array full.
C22_TimerStuck ==
    /\ variant = "V1"
    /\ ~engine.gameOver
    /\ engine.zombieSpawnTime > engine.zombieSpawnRate
    /\ Len(zombies) >= maxZombies


\* ---------------------------------------------------------------------
\* Dead zombies and their removal from the array.
\* ---------------------------------------------------------------------

\* The zombie with this identity lies dead in the array.
DeadIn(id) == \E i \in 1..Len(zombies) : zombies[i].id = id /\ ~zombies[i].isAlive

\* The zombies of the constructor.
InitialIds == Ids(Constructed.zs)

C23_OnlyEviction ==
    [][(variant = "V1" /\ ~(Ids(zombies) \subseteq Ids(zombies')))
          => (Len(zombies) >= maxZombies /\ Len(zombies') = Len(zombies))]_vars

\* The periodic cleanup of V3 takes every zombie dead for more than 3 s out
\* of the array.
C23_CleanupV3 ==
    [][(FrameStep /\ (player.isAlive \/ engine.playerDead)
          /\ engine.sinceCleanup > zombieCleanupInterval)
          => \A i \in 1..Len(zombies) :
                 Expired(zombies[i]) => zombies[i].id \notin Ids(zombies')]_vars

\* A zombie of V1 shot dead more than 3 s ago that is still in the array.
C23_DeadKept ==
    /\ variant = "V1"
    /\ \E i \in 1..Len(zombies) : ~zombies[i].isAlive /\ zombies[i].deadFor > DeadZombieTime


\* ---------------------------------------------------------------------
\* Melee combat on its own: one player, two zombies on a small set of
\* points around the player, and the melee key held.
\* ---------------------------------------------------------------------

\* Where the zombies stand: 1 unit ahead along +Z, exactly at meleeRange
\* ahead, on the diagonal inside the range, 4 units ahead (out of range),
\* 1 unit behind, and on the player itself.
MeleePoints == {<<0, 100>>, <<0, 300>>, <<200, 200>>, <<0, 400>>, <<0, -100>>, <<0, 0>>}

\* A zombie as spawned, or as killed by a shot.
MeleeKinds == {"fresh", "dead"}

\* The melee range is followed for this long: four swings kill a zombie.
MaxMeleeTime == 6000

InitMelee ==
    \E f \in ShootFacings, pa \in MeleePoints, pb \in MeleePoints, ka \in MeleeKinds,
       kb \in MeleeKinds :
        pa # pb /\ Start(ShootWorld(f, pa, ka, pb, kb), "V3")

\* One run of handleInput with the melee key held.
Swing ==
    /\ Leaves(handleInput(World, {"e"}))
    /\ UNCHANGED <<variant, keys, clock, presses>>

\* A third of the melee cooldown passes.
MeleeWait ==
    /\ clock < MaxMeleeTime
    /\ Leaves(Tick(World, WeaponCooldown))
    /\ clock' = clock + WeaponCooldown
    /\ UNCHANGED <<variant, keys, presses>>

NextMelee == Swing \/ MeleeWait

SpecMelee == InitMelee /\ [][NextMelee]_vars

\* The step is a run of handleInput in which meleeAttack passes its gates.
MeleePasses ==
    /\ steps' # <<>> /\ steps'[1] = "input"
    /\ player.isAlive
    /\ engine.sinceMelee >= meleeCooldown

\* The cone and range test of meleeAttack on zombie i.
InSwing(i) ==
    /\ zombies[i].isAlive
    /\ Sq(zombies[i].x - player.x) + Sq(zombies[i].z - player.z) <= Sq(meleeRange)
    /\ (zombies[i].x - player.x) * player.dirX + (zombies[i].z - player.z) * player.dirZ > 0

\* C24: a melee attack that passes its cooldown gate applies its damage and
\* its knockback to every living enemy inside the melee range and in front
\* of the player, not only to the nearest one, and leaves every other enemy
\* as it was.
C24_AllQualifying ==
    [][MeleePasses =>
          /\ Len(zombies') = Len(zombies)
          /\ \A i \in 1..Len(zombies) :
                IF InSwing(i)
                THEN /\ zombies'[i].health = Max(0, zombies[i].health - MeleeDamage)
                     /\ zombies'[i].isRagdolled
                     /\ zombies'[i].ragdollLeft = ragdollDuration
                     /\ zombies'[i].knockElapsed = 0
                     /\ zombies'[i].kvx * (zombies[i].x - player.x)
                          + zombies'[i].kvz * (zombies[i].z - player.z) > 0
                ELSE zombies'[i] = zombies[i]]_vars

\* Both zombies stood in the cone and the swing has hurt and ragdolled both.
C24_Witness ==
    /\ steps # <<>> /\ steps[1] = "input"
    /\ engine.sinceMelee = 0
    /\ \A i \in 1..Len(zombies) :
          /\ zombies[i].health = ZombieHealth - MeleeDamage
          /\ zombies[i].isRagdolled
          /\ zombies[i].ragdollLeft = ragdollDuration


\* ---------------------------------------------------------------------
\* The ragdoll of a zombie: melee swings knock two zombies back, and
\* Zombie.update is called on them frame after frame.
\* ---------------------------------------------------------------------

\* At most this many swings of the melee key.
MaxKnocks == 2

\* Where the two zombies stand: 1 unit ahead, on the diagonal inside the
\* melee range, and 4 units ahead; the player faces +Z or the diagonal.
RagdollPoints == {<<0, 100>>, <<200, 200>>, <<0, 400>>}
RagdollFacings == {<<0, 1000>>, <<707, 707>>}

InitRagdoll ==
    \E f \in RagdollFacings, pa \in RagdollPoints, pb \in RagdollPoints :
        pa # pb /\ Start(ShootWorld(f, pa, "fresh", pb, "fresh"), "Zombie")

\* One run of handleInput with the melee key held.
Knocked ==
    /\ presses < MaxKnocks
    /\ Leaves(handleInput(World, {"e"}))
    /\ presses' = presses + 1
    /\ UNCHANGED <<variant, keys, clock>>

\* "for (const zombie of this.zombies) if (zombie.isAlive) zombie.update(...)"
UpdatedAll(W, dt, jit) ==
    [W EXCEPT !.zs = [i \in 1..Len(W.zs) |->
                         IF W.zs[i].isAlive
                         THEN ZombieUpdate(W.zs[i], dt, W.p.x, W.p.z, W.p.nan, jit)
                         ELSE W.zs[i]]]

\* A frame: every living zombie is updated and the time of the frame
\* passes.  Of the time stamp only the alternation is kept.
ZombiesUpdated ==
    /\ \E jit \in Jitters :
          Leaves(Tick(UpdatedAll(Logged(World, "zombieUpdate"), FrameMs, jit), FrameMs))
    /\ clock' = (IF clock = 0 THEN FrameMs ELSE 0)
    /\ UNCHANGED <<variant, keys, presses>>

NextRagdoll == Knocked \/ ZombiesUpdated

\* The browser runs every animation frame.
FrameGoesOn == clock' = IF clock = 0 THEN FrameMs ELSE 0
SpecRagdoll == InitRagdoll /\ [][NextRagdoll]_vars /\ WF_clock(FrameGoesOn)

Ragdolled(i) == zombies[i].isAlive /\ zombies[i].isRagdolled

\* C25: while an enemy is ragdolled its pursuit and wander are suspended:
\* a frame moves it only along its knockback velocity while the knockback
\* animation runs and not at all afterwards; the frame that finds the
\* ragdoll duration expired ends the ragdoll, and the enemy pursues the
\* player again; once the swings stop, no living enemy stays ragdolled.
C25_Ragdoll ==
    /\ [][FrameStep =>
            \A i \in 1..Len(zombies) :
                /\ Ragdolled(i) =>
                      /\ zombies[i].knockElapsed >= knockbackDuration =>
                             (zombies'[i].x = zombies[i].x /\ zombies'[i].z = zombies[i].z)
                      /\ (zombies'[i].x - zombies[i].x) * zombies[i].kvz
                             = (zombies'[i].z - zombies[i].z) * zombies[i].kvx
                      /\ zombies'[i].isRagdolled = (zombies[i].ragdollLeft > 0)
                /\ (zombies[i].isAlive /\ ~zombies[i].isRagdolled
                      /\ Dist2(zombies[i].x, zombies[i].z, player.x, player.z) > Sq(100)) =>
                      Dist2(zombies'[i].x, zombies'[i].z, player.x, player.z)
                          < Dist2(zombies[i].x, zombies[i].z, player.x, player.z)]_vars
    /\ \A i \in 1..2 : Ragdolled(i) ~> ~Ragdolled(i)

\* A zombie that was knocked back has recovered and has walked toward the
\* player since: it is closer than the knockback left it, the swings used up.
C25_Witness ==
    /\ presses = MaxKnocks
    /\ \E i \in 1..Len(zombies) :
          /\ zombies[i].isAlive /\ ~zombies[i].isRagdolled
          /\ zombies[i].health < ZombieHealth
          /\ zombies[i].knockElapsed >= knockbackDuration
          /\ zombies[i].y = 0


\* ---------------------------------------------------------------------
\* The respawn of the player and the key listeners (V3).
\* ---------------------------------------------------------------------

\* The callbacks of respawnPlayer that wait in the timer queue.
Batches(ts) == Cardinality({i \in 1..Len(ts) : ts[i].kind = "batch"})

\* C26 as stated: each death is followed by at most one respawn; the effects
\* of respawnPlayer, among them the scheduling of the delayed batch of three
\* zombies, happen once per death, even when one press of R is delivered to
\* every key listener registered: no step schedules more than one batch, and
\* a batch is scheduled only by a step that finds the player dead.
C26_AsStated ==
    [][/\ Batches(timeouts') <= Batches(timeouts) + 1
       /\ Batches(timeouts') > Batches(timeouts) => engine.playerDead]_vars

\* One press of R has run respawnPlayer twice: two batches wait in the
\* timer queue and the listener is gone.
C26_TwoBatches ==
    /\ player.isAlive
    /\ Batches(timeouts) = 2
    /\ listeners = 0

\* Both batches have been spawned: six zombies of the respawn stand in the
\* array where respawnPlayer means three.
C26_SixZombies ==
    /\ player.isAlive
    /\ Len(zombies) >= 6
    /\ Batches(timeouts) = 0


\* ---------------------------------------------------------------------
\* The deferred spawn callbacks and the death of the player.
\* ---------------------------------------------------------------------

\* C27 as stated: a deferred spawn callback (a spawn of a wave, or the batch
\* scheduled by respawnPlayer) adds an enemy only if the player has stayed
\* alive since it was scheduled; in particular no callback adds an enemy
\* while the player is dead.
C27_AsStated == [][ZombieAdded => (player.isAlive /\ ~engine.playerDead)]_vars

\* The same for the engine of V3 alone, whose wave callbacks test
\* player.isAlive when they fire.
C27_V3 == [][(variant = "V3" /\ ZombieAdded) => (player.isAlive /\ ~engine.playerDead)]_vars

\* The same for the wave callbacks of V3 alone.
C27_WavesOfV3 ==
    [][(variant = "V3" /\ ZombieAdded /\ Batches(timeouts') = Batches(timeouts))
          => (player.isAlive /\ ~engine.playerDead)]_vars

\* Spawns of a wave scheduled before the death are still pending after the
\* respawn of V3 has reset the wave number to 1: they fire with the player
\* alive and add their zombies to the cleared world.
C27_StaleWave ==
    /\ variant = "V3"
    /\ player.isAlive
    /\ engine.waveNumber = 1
    /\ \E i \in 1..Len(timeouts) : timeouts[i].kind = "wave"


\* ---------------------------------------------------------------------
\* The credit for a kill.
\* ---------------------------------------------------------------------

\* The zombies the step takes from alive to dead.
Killed ==
    {i \in 1..Len(zombies) :
        /\ zombies[i].isAlive
        /\ \E j \in 1..Len(zombies') : zombies'[j].id = zombies[i].id /\ ~zombies'[j].isAlive}

\* C28 as stated: whenever a ranged shot or a melee attack takes an enemy
\* from alive to dead, the kill counter increases by 1 and the score
\* increases; the counter counts every enemy the player has killed.
C28_AsStated ==
    [][/\ player'.kills = player.kills + Cardinality(Killed)
       /\ Killed # {} => engine'.gameScore > engine.gameScore]_vars

\* A zombie lies dead of the melee swings and no kill has been counted.
C28_UncreditedKill ==
    /\ \E i \in 1..Len(zombies) :
          ~zombies[i].isAlive /\ zombies[i].isRagdolled /\ zombies[i].deadFor # NoDeathTime
    /\ \A i \in 1..Len(zombies) : zombies[i].isRagdolled \/ zombies[i].isAlive
    /\ player.kills = 0
    /\ engine.gameScore = 0


\* ---------------------------------------------------------------------
\* Division by a distance: MovementSystem, and the collision check of the
\* V3 loop with a zombie standing where the player steps.
\* ---------------------------------------------------------------------

\* An Entity of MovementSystem: x, y, speed; nan records that the
\* coordinates are NaN.
Entity(x, y, speed) == [x |-> x, y |-> y, speed |-> speed, nan |-> FALSE]

\* The length of one step of an entity: speed * deltaTime.
StepOf(e, dt) == (e.speed * dt) \div 10000

\* MovementSystem.movePlayer(player, input, deltaTime)
movePlayer(p, ks, dt) ==
    IF p.nan THEN p
    ELSE [p EXCEPT !.x = p.x + Quot(Normalised(MoveX(ks), MoveZ(ks)) * StepOf(p, dt), 1000),
                   !.y = p.y + Quot(Normalised(MoveZ(ks), MoveX(ks)) * StepOf(p, dt), 1000)]

\* MovementSystem.moveZombieTowardsPlayer(zombie, player, deltaTime): dx and
\* dy are divided by the distance without a test; 0 / 0 is NaN.
moveZombieTowardsPlayer(z, p, dt) ==
    LET dx == p.x - z.x
        dy == p.y - z.y
        distance == Sqrt(Sq(dx) + Sq(dy))
    IN  IF z.nan \/ p.nan \/ (dx = 0 /\ dy = 0) THEN [z EXCEPT !.nan = TRUE]
        ELSE [z EXCEPT !.x = z.x + Quot(dx * StepOf(z, dt), distance),
                       !.y = z.y + Quot(dy * StepOf(z, dt), distance)]

minSeparation == 100         \* minDistance = 1.0

\* The body of the two loops of handleCollisions for the pair (i, j): a
\* comparison with a NaN distance is false, and 0 / 0 is NaN.
Separated(es, i, j) ==
    LET dx == es[i].x - es[j].x
        dy == es[i].y - es[j].y
        distance == Sqrt(Sq(dx) + Sq(dy))
    IN  IF es[i].nan \/ es[j].nan THEN es
        ELSE IF dx = 0 /\ dy = 0
             THEN [es EXCEPT ![i].nan = TRUE, ![j].nan = TRUE]
             ELSE IF Sq(dx) + Sq(dy) < Sq(minSeparation)
                  THEN LET sx == Quot(dx * (minSeparation - distance), 2 * distance)
                           sy == Quot(dy * (minSeparation - distance), 2 * distance)
                       IN  [es EXCEPT ![i].x = es[i].x + sx, ![i].y = es[i].y + sy,
                                      ![j].x = es[j].x - sx, ![j].y = es[j].y - sy]
                  ELSE es

\* MovementSystem.handleCollisions(entities)
RECURSIVE CollisionPairs(_, _, _)
CollisionPairs(es, i, j) ==
    IF i > Len(es) THEN es
    ELSE IF j > Len(es) THEN CollisionPairs(es, i + 1, i + 2)
         ELSE CollisionPairs(Separated(es, i, j), i, j + 1)

handleCollisions(es) == CollisionPairs(es, 1, 2)

\* MovementSystem.update(deltaTime, entities, playerInput): entities[0] is
\* the player.
MovementUpdate(es, ks, dt) ==
    LET moved == movePlayer(es[1], ks, dt)
    IN  handleCollisions(
            <<moved>> \o [i \in 1..(Len(es) - 1) |->
                             moveZombieTowardsPlayer(es[i + 1], moved, dt)])

\* Where the zombies of the V3 engine stand around the player at the
\* origin: exactly one step (0.8) to the right, one step up, one diagonal
\* step away, 1 unit and 3 units to the right.
SlidePoints == {<<80, 0>>, <<0, -80>>, <<56, -56>>, <<100, 0>>, <<300, 0>>}

\* Where the zombies of MovementSystem stand: one zombie step (0.25) from
\* the player, half a unit from it, 2 units and 3 units from it.
MovePoints == {<<25, 0>>, <<0, 50>>, <<200, 0>>, <<0, -300>>}

\* The movement keys held during a frame.
MoveKeys == {{}, {"d"}, {"w"}, {"w", "d"}}

\* The movement is followed for this long.
MaxMoveTime == 300

InitMove ==
    \/ \E pa \in SlidePoints, pb \in SlidePoints :
          pa # pb /\ Start(ShootWorld(<<0, -1000>>, pa, "fresh", pb, "fresh"), "V3")
    \/ \E pa \in MovePoints, pb \in MovePoints :
          /\ pa # pb
          /\ Start([EmptyWorld EXCEPT
                       !.p = Entity(0, 0, PlayerSpeed * 1000),
                       !.zs = <<Entity(pa[1], pa[2], ZombieSpeed),
                                Entity(pb[1], pb[2], ZombieSpeed)>>],
                   "Movement")

\* A frame of the V3 loop with the movement keys ks held.
SlideFrame ==
    /\ variant = "V3"
    /\ clock < MaxMoveTime
    /\ \E ks \in MoveKeys, rnd \in FrameDraws :
          /\ Leaves(Tick(loop(World, ks, Min(FrameMs, MaxDeltaTime), rnd), FrameMs))
          /\ keys' = ks
    /\ clock' = clock + FrameMs
    /\ UNCHANGED <<variant, presses>>

\* One call of MovementSystem.update with the movement keys ks held.
MovementUpdated ==
    /\ variant = "Movement"
    /\ clock < MaxMoveTime
    /\ \E ks \in MoveKeys :
          LET es == MovementUpdate(<<player>> \o zombies, ks, FrameMs)
          IN  /\ player' = es[1]
              /\ zombies' = Tail(es)
              /\ keys' = ks
    /\ steps' = <<"movement">>
    /\ clock' = clock + FrameMs
    /\ UNCHANGED <<variant, weapon, engine, timeouts, listeners, scene, presses>>

NextMove == SlideFrame \/ MovementUpdated

SpecMove == InitMove /\ [][NextMove]_vars

\* C29 as stated: wherever a direction is normalised by dividing by a
\* distance, a distance of 0 is guarded, so no position ever becomes NaN,
\* even when two actors occupy the same point.
C29_AsStated ==
    /\ ~player.nan
    /\ variant = "Movement" => \A i \in 1..Len(zombies) : ~zombies[i].nan

\* The player of V3 has stepped exactly onto a zombie and its position is NaN.
C29_NaNSlide == variant = "V3" /\ player.nan

\* A zombie of MovementSystem has reached the player's point and the
\* positions of both are NaN.
C29_NaNPursuit ==
    /\ variant = "Movement"
    /\ player.nan
    /\ \E i \in 1..Len(zombies) : zombies[i].nan


\* ---------------------------------------------------------------------
\* NetworkSystem (part_006).  In this specification engine holds the
\* fields of the NetworkSystem and the state of its socket.io connection,
\* and steps what the last call or event handler emitted or threw.
\* ---------------------------------------------------------------------

reconnectionAttempts == 3    \* reconnectionAttempts: 3

\* The player counts the server reports.
MaxPlayers == 3

\* new NetworkSystem(name): connectToServer() has started the health check
\* and returned; check is the promise of checkServerAvailability, link the
\* connection of the socket ("none" while there is no socket).
NewNetwork ==
    [socket |-> FALSE, isConnected |-> FALSE, serverAvailable |-> FALSE,
     connectionAttempted |-> FALSE, activePlayers |-> 1,
     check |-> "pending", link |-> "none", tries |-> 0]

\* NetworkSystem.initializeSocket(): io(...) returns a socket that starts
\* connecting, or throws inside the try block.
initializeSocket(n, created) ==
    IF created THEN [n EXCEPT !.socket = TRUE, !.link = "connecting"]
    ELSE [n EXCEPT !.connectionAttempted = TRUE]

\* NetworkSystem.checkServerAvailability() settles, and the then-callback
\* of connectToServer runs: available is FALSE when fetch rejected or was
\* aborted by the timeout of 2 s.
connectToServer(n, available, created) ==
    IF available
    THEN initializeSocket([n EXCEPT !.serverAvailable = TRUE, !.check = "done"], created)
    ELSE [n EXCEPT !.serverAvailable = FALSE, !.connectionAttempted = TRUE, !.check = "done"]

\* The handlers registered by initializeSocket.
onConnect(n) == [n EXCEPT !.isConnected = TRUE, !.link = "open", !.tries = 0]

onPlayerCount(n, count) == [n EXCEPT !.activePlayers = count]

\* again: socket.io reconnects after the disconnection.
onDisconnect(n, again) ==
    [n EXCEPT !.isConnected = FALSE, !.link = IF again THEN "connecting" ELSE "closed"]

\* socket.io tries again until reconnectionAttempts is used up.
onConnectError(n) ==
    [n EXCEPT !.isConnected = FALSE, !.connectionAttempted = TRUE,
              !.tries = n.tries + 1,
              !.link = IF n.tries + 1 > reconnectionAttempts THEN "closed" ELSE "connecting"]

\* sendPlayerUpdate without the test of isConnected and socket: emit on the
\* null socket throws.
sendPlayerUpdateUnguarded(n) == IF n.socket THEN <<"playerUpdate">> ELSE <<"TypeError">>

\* NetworkSystem.sendInput(input) and sendPlayerUpdate(position, rotation):
\* what the call emits.
sendInput(n) == IF n.isConnected /\ n.socket THEN <<"playerInput">> ELSE <<>>

sendPlayerUpdate(n) == IF n.isConnected /\ n.socket THEN <<"playerUpdate">> ELSE <<>>

\* NetworkSystem.cleanup(): socket.disconnect() runs the disconnect handler
\* of an open connection, then the socket is dropped.
cleanupNetwork(n) ==
    IF n.socket
    THEN [(IF n.link = "open" THEN onDisconnect(n, FALSE) ELSE n)
             EXCEPT !.socket = FALSE, !.link = "closed"]
    ELSE n

InitNetwork == Start([EmptyWorld EXCEPT !.e = NewNetwork], "Network")

\* A step of the NetworkSystem: its fields become n, and out is emitted.
NetworkStep(n, out) ==
    /\ engine' = n
    /\ steps' = out
    /\ UNCHANGED <<variant, player, weapon, zombies, timeouts, listeners, scene, keys,
                   clock, presses>>

HealthChecked ==
    /\ engine.check = "pending"
    /\ \E available \in BOOLEAN, created \in BOOLEAN :
          NetworkStep(connectToServer(engine, available, created), <<>>)

Connected ==
    /\ engine.socket /\ engine.link = "connecting"
    /\ NetworkStep(onConnect(engine), <<"playerJoin">>)

ConnectFailed ==
    /\ engine.socket /\ engine.link = "connecting"
    /\ NetworkStep(onConnectError(engine), <<>>)

Disconnected ==
    /\ engine.socket /\ engine.link = "open"
    /\ \E again \in BOOLEAN : NetworkStep(onDisconnect(engine, again), <<>>)

PlayerCounted ==
    /\ engine.socket /\ engine.link = "open"
    /\ \E count \in 1..MaxPlayers : NetworkStep(onPlayerCount(engine, count), <<>>)

InputSent == NetworkStep(engine, <<"sendInput">> \o sendInput(engine))

UpdateSent == NetworkStep(engine, <<"sendPlayerUpdate">> \o sendPlayerUpdate(engine))

CleanedUp == NetworkStep(cleanupNetwork(engine), <<"cleanup">>)

NextNetwork ==
    \/ HealthChecked \/ Connected \/ ConnectFailed \/ Disconnected
    \/ PlayerCounted \/ InputSent \/ UpdateSent \/ CleanedUp

SpecNetwork == InitNetwork /\ [][NextNetwork]_vars

\* What the step has put on the wire or thrown.
Emitted(out) == {out[i] : i \in 1..Len(out)} \cap {"playerInput", "playerUpdate"}

\* C30: network failures are swallowed: no call or handler throws; after a
\* failed or timed-out availability check there is no socket and the system
\* is not connected; connect_error and disconnect leave it not connected;
\* and sendInput and sendPlayerUpdate emit nothing while it is not connected.
C30_BestEffort ==
    /\ [](engine.isConnected => (engine.socket /\ engine.link = "open"))
    /\ []((engine.check = "done" /\ ~engine.serverAvailable)
             => (~engine.isConnected /\ ~engine.socket))
    /\ [][/\ \A i \in 1..Len(steps') : steps'[i] # "TypeError"
          /\ Emitted(steps') # {} => (engine.isConnected /\ engine.link = "open")
          /\ (engine.link = "open" /\ engine'.link # "open") => ~engine'.isConnected
          /\ engine'.tries > engine.tries => ~engine'.isConnected]_vars

\* The connection was open and is lost, all reconnection attempts have
\* failed, and a sendPlayerUpdate has just emitted nothing.
C30_Witness ==
    /\ engine.link = "closed"
    /\ engine.socket
    /\ engine.tries > reconnectionAttempts
    /\ engine.activePlayers = MaxPlayers
    /\ ~engine.isConnected
    /\ steps = <<"sendPlayerUpdate">>

=============================================================================
